---- MODULE Spec2Model ----
(***************************************************************************)
(* Family-graph traversal and layout selection of pyFamilyTree:            *)
(*   - D3FamilyTreeGraph        (src/src/graph/d3_family.py)               *)
(*   - FamilyTreeGraph          (src/src/graph/family.py)                  *)
(*   - EmbeddedFamilyTreeGraph  (src/src/graph/embedded_family.py)         *)
(* Person IDs are strings in the program; here an ID is a positive integer *)
(* whose numeric order stands for the lexicographic order of the strings   *)
(* (sorted([a, b]) compares IDs).  NoId stands for None / "" (falsy).      *)
(* A Python dict is modelled by the sequence of its keys in insertion      *)
(* order (the order .items() iterates) and, for the store, a function from *)
(* the keys to the records.                                                *)
(***************************************************************************)
EXTENDS Integers, Sequences, FiniteSets, TLC

VARIABLES
    all_characters,   \* the PersonStore: ID -> record
    all_order,        \* iteration order of all_characters (dict insertion order)
    graph,            \* which graph class has been constructed ("none" before)
    request,          \* the constructor's arguments [start, gb, gf]
    all_id_to_name_map, \* the ID -> display-name index of the store
    characters,       \* the Selection: keys of self.characters in insertion order
    processed_pairs,  \* embedded graph: spouse pairs in insertion order, with their primary
    skip_nodes,       \* embedded graph: persons that get no node of their own
    raw_generations,  \* what _calculate_generations returned: [keys, gen]
    generations,      \* the generation map after the adjustment to "oldest is 0"
    nodes,            \* nodes given to graphviz, in creation order
    edges,            \* edges given to graphviz, in creation order
    error,            \* exception raised by the last operation ("none" if none)
    name_result,      \* the last get_name call: [called, char_id, text]
    service,          \* the FamilyDataService object: its four cache fields
    world             \* what the service runs in: directories, clock, last call

vars == <<all_characters, all_order, all_id_to_name_map, graph, request, characters,
          processed_pairs, skip_nodes, raw_generations, generations, nodes, edges, error,
          name_result, service, world>>
layout == <<processed_pairs, skip_nodes, raw_generations, generations, nodes, edges>>

----------------------------------------------------------------------------
(* Bounds of the model *)

\* number of distinct person IDs (loaded or only referred to)
NumPersons == 3
\* number of father_id / mother_id / spouse_id fields that are set in a store
MaxLinks == 2
\* largest generations_back / generations_forward requested
MaxGen == 2
\* length of the long single line of descent among the initial stores
DeepChain == 23
NumLetters == 2
MaxNameLen == 2
RingLen == 5
\* number of XML directories the data service is asked to load
NumDirs == 2
\* number of load_from_xml / clear_cache calls in one behaviour
MaxCalls == 4
\* an upper-case letter is its lower-case letter plus this offset
CaseOffset == 100
\* the recursion-depth ceiling of calculate_gen ("if depth > 20")
MaxDepth == 20

NoId == 0
Ids == 1..NumPersons
Fields == {"father_id", "mother_id", "spouse_id"}

Range(s) == {s[i] : i \in DOMAIN s}

\* dict[k] = v on a dict modelled by its key sequence: a new key goes last,
\* no get_name call made yet
NoCall == [called |-> FALSE, char_id |-> NoId, text |-> << >>]

----------------------------------------------------------------------------
(* FamilyDataService: the cache in front of the XML loader.  An Optional    *)
(* dict is [is_none, keys]: None, or the set of the dict's keys; an         *)
(* Optional directory or time is NoDir or NoTime for None.                  *)

NoDir == 0
NoTime == 0
Dirs == 1..NumDirs
NoneDict == [is_none |-> TRUE, keys |-> {}]
SomeDict(keys) == [is_none |-> FALSE, keys |-> keys]
\* Python truth value of an Optional dict: neither None nor empty
Truthy(dict) == ~dict.is_none /\ dict.keys # {}

\* FamilyDataService.__init__
NewService ==
    [_cached_characters |-> NoneDict, _cached_id_to_name_map |-> NoneDict,
     _current_data_source |-> NoDir, _last_loaded |-> NoTime]

\* no directory, no call: the world of the behaviours without a data service
NoWorld == [disk |-> << >>, now |-> NoTime, reads |-> 0,
            call |-> [op |-> "none", dir |-> NoDir, force_reload |-> FALSE],
            returned |-> "none"]

\* a directory is unreadable (FamilyTreeData raises) or holds the records
\* with the IDs 1..n, n = 0 for a directory without XML files
Directories ==
    {[readable |-> FALSE, ids |-> {}]} \cup {[readable |-> TRUE, ids |-> 1..n] : n \in 0..NumPersons}

\* load_from_xml: the cache test, else FamilyTreeData(xml_data_dir), the two
\* getters, the cache metadata and _save_to_offline_db (which does nothing);
\* an exception from the loader is caught and False returned.  The clock
\* moves with every call and world.reads counts the FamilyTreeData objects.
LoadFromXml(xml_data_dir, force_reload) ==
    LET call == [op |-> "load_from_xml", dir |-> xml_data_dir, force_reload |-> force_reload]
    IN /\ world.now < MaxCalls
       /\ IF /\ ~force_reload
             /\ service._current_data_source = xml_data_dir
             /\ Truthy(service._cached_characters)
          THEN /\ world' = [world EXCEPT !.now = @ + 1, !.call = call, !.returned = "True"]
               /\ UNCHANGED service
          ELSE IF ~world.disk[xml_data_dir].readable
          THEN /\ world' = [world EXCEPT !.now = @ + 1, !.call = call, !.returned = "False"]
               /\ UNCHANGED service
          ELSE /\ service' =
                     [_cached_characters |-> SomeDict(world.disk[xml_data_dir].ids),
                      _cached_id_to_name_map |-> SomeDict(world.disk[xml_data_dir].ids),
                      _current_data_source |-> xml_data_dir,
                      _last_loaded |-> world.now + 1]
               /\ world' = [world EXCEPT !.now = @ + 1, !.reads = @ + 1,
                                         !.call = call, !.returned = "True"]

\* clear_cache
ClearCache ==
    /\ world.now < MaxCalls
    /\ service' = NewService
    /\ world' = [world EXCEPT !.now = @ + 1, !.returned = "none",
                              !.call = [op |-> "clear_cache", dir |-> NoDir, force_reload |-> FALSE]]

\* an existing key keeps its position
DictPut(keys, k) == IF k \in Range(keys) THEN keys ELSE Append(keys, k)

\* a person record as CharacterData.parse_xml leaves it: the three reference
\* fields, None when absent (is_root_ancestor is added later by the D3 graph)
BlankRecord == [father_id |-> NoId, mother_id |-> NoId, spouse_id |-> NoId,
                is_root_ancestor |-> "unset"]

\* the stores over keys 1..n in which exactly the slots of S are set, by f
StoreOf(n, S, f) ==
    [id \in 1..n |->
        [fld \in DOMAIN BlankRecord |->
            IF <<id, fld>> \in S THEN f[<<id, fld>>] ELSE BlankRecord[fld]]]

Slots(n) == (1..n) \X Fields

\* an empty dict whose keys are kept in insertion order
EmptyMap == [keys |-> << >>, gen |-> << >>]

----------------------------------------------------------------------------
(* D3FamilyTreeGraph: bounded resolution *)

\* for char_id, char_data in self.all_characters.items(): if char_data's father
\* or mother is person_id, recurse with (0, generations_forward - 1)
RECURSIVE AddPersonAndRelatives(_, _, _, _, _)
RECURSIVE AddChildren(_, _, _, _)

\* variant of AddChildren: a child is recognised by its father_id only
RECURSIVE AddChildrenFatherOnly(_, _, _, _)
AddChildrenFatherOnly(person_id, generations_forward, st, i) ==
    IF i > Len(all_order) THEN st
    ELSE LET char_id == all_order[i]
             st1 == IF all_characters[char_id].father_id = person_id
                    THEN AddPersonAndRelatives(char_id, 0, generations_forward - 1, st, FALSE)
                    ELSE st
         IN AddChildrenFatherOnly(person_id, generations_forward, st1, i + 1)

AddChildren(person_id, generations_forward, st, i) ==
    IF i > Len(all_order) THEN st
    ELSE LET char_id == all_order[i]
             char_data == all_characters[char_id]
             st1 == IF char_data.father_id = person_id \/ char_data.mother_id = person_id
                    THEN AddPersonAndRelatives(char_id, 0, generations_forward - 1, st, FALSE)
                    ELSE st
         IN AddChildren(person_id, generations_forward, st1, i + 1)

\* variants of AddPersonAndRelatives: which = "parents_at_zero" walks to the
\* parents while generations_back >= 0; which = "every_spouse" adds the spouse
\* of every visited person; which = "keep_forward" walks to the parents with
\* generations_forward unchanged instead of 0; which = "unchecked_spouse" adds
\* the root's spouse_id without looking it up in the store
RECURSIVE AddPersonAndRelativesVariant(_, _, _, _, _, _)
AddPersonAndRelativesVariant(person_id, generations_back, generations_forward, st, is_starting_person, which) ==
    IF person_id \notin DOMAIN all_characters THEN st
    ELSE LET branch_key == <<person_id, generations_back, generations_forward>> IN
    IF branch_key \in st.processed THEN st
    ELSE LET person_data == all_characters[person_id]
             st1 == [characters |-> DictPut(st.characters, person_id),
                     processed |-> st.processed \cup {branch_key}]
             spouse_id == person_data.spouse_id
             st2 == IF (is_starting_person \/ which = "every_spouse") /\ spouse_id # NoId
                       /\ (spouse_id \in DOMAIN all_characters \/ which = "unchecked_spouse")
                    THEN [st1 EXCEPT !.characters = DictPut(@, spouse_id)]
                    ELSE st1
             up == IF which = "parents_at_zero"
                   THEN generations_back >= 0 ELSE generations_back > 0
             st3 == IF up /\ person_data.father_id # NoId
                    THEN AddPersonAndRelativesVariant(person_data.father_id,
                             generations_back - 1,
                             IF which = "keep_forward" THEN generations_forward ELSE 0,
                             st2, FALSE, which)
                    ELSE st2
             st4 == IF up /\ person_data.mother_id # NoId
                    THEN AddPersonAndRelativesVariant(person_data.mother_id,
                             generations_back - 1,
                             IF which = "keep_forward" THEN generations_forward ELSE 0,
                             st3, FALSE, which)
                    ELSE st3
         IN IF generations_forward > 0
            THEN AddChildren(person_id, generations_forward, st4, 1)
            ELSE st4

AddPersonAndRelativesParentsAtZero(person_id, generations_back, generations_forward, st, is_starting_person) ==
    AddPersonAndRelativesVariant(person_id, generations_back, generations_forward, st,
                                 is_starting_person, "parents_at_zero")

AddPersonAndRelativesKeepForward(person_id, generations_back, generations_forward, st, is_starting_person) ==
    AddPersonAndRelativesVariant(person_id, generations_back, generations_forward, st,
                                 is_starting_person, "keep_forward")

AddPersonAndRelativesUncheckedSpouse(person_id, generations_back, generations_forward, st, is_starting_person) ==
    AddPersonAndRelativesVariant(person_id, generations_back, generations_forward, st,
                                 is_starting_person, "unchecked_spouse")

AddPersonAndRelativesEverySpouse(person_id, generations_back, generations_forward, st, is_starting_person) ==
    AddPersonAndRelativesVariant(person_id, generations_back, generations_forward, st,
                                 is_starting_person, "every_spouse")

AddPersonAndRelatives(person_id, generations_back, generations_forward, st, is_starting_person) ==
    IF person_id \notin DOMAIN all_characters THEN st
    ELSE LET branch_key == <<person_id, generations_back, generations_forward>> IN
    IF branch_key \in st.processed THEN st
    ELSE LET person_data == all_characters[person_id]
             st1 == [characters |-> DictPut(st.characters, person_id),
                     processed |-> st.processed \cup {branch_key}]
             spouse_id == person_data.spouse_id
             st2 == IF is_starting_person /\ spouse_id # NoId
                       /\ spouse_id \in DOMAIN all_characters
                    THEN [st1 EXCEPT !.characters = DictPut(@, spouse_id)]
                    ELSE st1
             father_id == person_data.father_id
             mother_id == person_data.mother_id
             st3 == IF generations_back > 0 /\ father_id # NoId
                    THEN AddPersonAndRelatives(father_id, generations_back - 1, 0, st2, FALSE)
                    ELSE st2
             st4 == IF generations_back > 0 /\ mother_id # NoId
                    THEN AddPersonAndRelatives(mother_id, generations_back - 1, 0, st3, FALSE)
                    ELSE st3
         IN IF generations_forward > 0
            THEN AddChildren(person_id, generations_forward, st4, 1)
            ELSE st4

\* variant of D3SelectRelevantCharacters: an unknown start person falls back to
\* the whole store
D3SelectRelevantCharactersFallBackToAll(start_person_id, generations_back, generations_forward) ==
    IF start_person_id = NoId THEN << >>
    ELSE IF start_person_id \notin DOMAIN all_characters THEN all_order
    ELSE AddPersonAndRelatives(start_person_id, generations_back, generations_forward,
                               [characters |-> << >>, processed |-> {}], TRUE).characters

\* variant of D3SelectRelevantCharacters: the processed set is not created
\* afresh but kept from the previous resolution on the same object, so it
\* still holds the branch key of the previous root
D3SelectRelevantCharactersStaleProcessed(start_person_id, generations_back, generations_forward) ==
    IF start_person_id = NoId THEN << >>
    ELSE IF start_person_id \notin DOMAIN all_characters THEN << >>
    ELSE AddPersonAndRelatives(start_person_id, generations_back, generations_forward,
                               [characters |-> << >>,
                                processed |-> IF graph = "d3"
                                              THEN {<<request.start, request.gb, request.gf>>}
                                              ELSE {}], TRUE).characters

\* D3FamilyTreeGraph._select_relevant_characters: the resulting self.characters
D3SelectRelevantCharacters(start_person_id, generations_back, generations_forward) ==
    IF start_person_id = NoId THEN << >>
    ELSE IF start_person_id \notin DOMAIN all_characters THEN << >>
    ELSE AddPersonAndRelatives(start_person_id, generations_back, generations_forward,
                               [characters |-> << >>, processed |-> {}], TRUE).characters

----------------------------------------------------------------------------
(* D3FamilyTreeGraph: complete-tree mode *)

HasParentInStore(char_id) ==
    LET char_data == all_characters[char_id] IN
    \/ (char_data.father_id # NoId /\ char_data.father_id \in DOMAIN all_characters)
    \/ (char_data.mother_id # NoId /\ char_data.mother_id \in DOMAIN all_characters)

\* first loop of _build_complete_tree_structure
PeopleWithParents == {char_id \in DOMAIN all_characters : HasParentInStore(char_id)}

\* tuple(sorted([char_id, spouse_id])) if spouse_id else (char_id,)
FamilyUnitKey(char_id, spouse_id) ==
    IF spouse_id # NoId
    THEN IF char_id <= spouse_id THEN <<char_id, spouse_id>> ELSE <<spouse_id, char_id>>
    ELSE <<char_id>>

\* variant of RootAncestorsLoop: a family unit already represented is not
\* recognised
RECURSIVE RootAncestorsLoopEveryMember(_, _)
RootAncestorsLoopEveryMember(acc, i) ==
    IF i > Len(all_order) THEN acc
    ELSE LET char_id == all_order[i]
             spouse_id == all_characters[char_id].spouse_id
             key == FamilyUnitKey(char_id, spouse_id)
             acc1 == IF /\ ~HasParentInStore(char_id)
                        /\ ~(spouse_id # NoId /\ spouse_id \in PeopleWithParents)
                     THEN [root_ancestors |-> Append(acc.root_ancestors, char_id),
                           root_family_units |-> acc.root_family_units \cup {key}]
                     ELSE acc
         IN RootAncestorsLoopEveryMember(acc1, i + 1)

\* second loop: root ancestors in store-iteration order, one per family unit;
\* acc = [root_ancestors (sequence), root_family_units (set of keys)]
RECURSIVE RootAncestorsLoop(_, _)
RootAncestorsLoop(acc, i) ==
    IF i > Len(all_order) THEN acc
    ELSE LET char_id == all_order[i]
             spouse_id == all_characters[char_id].spouse_id
             key == FamilyUnitKey(char_id, spouse_id)
             acc1 == IF /\ ~HasParentInStore(char_id)
                        /\ ~(spouse_id # NoId /\ spouse_id \in PeopleWithParents)
                        /\ key \notin acc.root_family_units
                     THEN [root_ancestors |-> Append(acc.root_ancestors, char_id),
                           root_family_units |-> acc.root_family_units \cup {key}]
                     ELSE acc
         IN RootAncestorsLoop(acc1, i + 1)

\* root_ancestors after the fallback "start with the first person"; the
\* fallback indexes list(keys)[0] and is only defined for a non-empty store
RootAncestors ==
    LET found == RootAncestorsLoop([root_ancestors |-> << >>, root_family_units |-> {}], 1).root_ancestors
    IN IF found = << >> /\ Len(all_order) > 0 THEN <<all_order[1]>> ELSE found

\* the records of the store, in iteration order, whose father_id or mother_id
\* is person_id
ChildIds(person_id) ==
    SelectSeq(all_order,
              LAMBDA char_id : \/ all_characters[char_id].father_id = person_id
                               \/ all_characters[char_id].mother_id = person_id)

RECURSIVE BuildTreeFromPerson(_, _)
RECURSIVE BuildTreeChildren(_, _, _)
\* variant of BuildTreeFromPerson: the spouse is added without the test
\* "spouse_id not in processed"
BuildTreeFromPersonSpouseUnchecked(person_id, st) ==
    IF person_id \in st.processed \/ person_id \notin DOMAIN all_characters THEN st
    ELSE LET person_data == all_characters[person_id]
             st1 == [characters |-> DictPut(st.characters, person_id),
                     processed |-> st.processed \cup {person_id},
                     adds |-> Append(st.adds, person_id),
                     expanded |-> Append(st.expanded, person_id)]
             spouse_id == person_data.spouse_id
             st2 == IF /\ spouse_id # NoId
                       /\ spouse_id \in DOMAIN all_characters
                    THEN [characters |-> DictPut(st1.characters, spouse_id),
                          processed |-> st1.processed \cup {spouse_id},
                          adds |-> Append(st1.adds, spouse_id),
                          expanded |-> st1.expanded]
                    ELSE st1
             st3 == BuildTreeChildren(ChildIds(person_id), st2, 1)
             father_id == person_data.father_id
             mother_id == person_data.mother_id
             st4 == IF /\ father_id # NoId
                       /\ father_id \in DOMAIN all_characters
                       /\ father_id \notin st3.processed
                    THEN BuildTreeFromPerson(father_id, st3)
                    ELSE st3
         IN IF /\ mother_id # NoId
               /\ mother_id \in DOMAIN all_characters
               /\ mother_id \notin st4.processed
            THEN BuildTreeFromPerson(mother_id, st4)
            ELSE st4

\* for char_id, char_data in self.all_characters.items(): the children of
\* person_id (children = ChildIds(person_id)) that are not yet processed when
\* the loop reaches them are walked
BuildTreeChildren(children, st, i) ==
    IF i > Len(children) THEN st
    ELSE LET char_id == children[i]
             st1 == IF char_id \notin st.processed
                    THEN BuildTreeFromPerson(char_id, st)
                    ELSE st
         IN BuildTreeChildren(children, st1, i + 1)

BuildTreeFromPerson(person_id, st) ==
    IF person_id \in st.processed \/ person_id \notin DOMAIN all_characters THEN st
    ELSE LET person_data == all_characters[person_id]
             st1 == [characters |-> DictPut(st.characters, person_id),
                     processed |-> st.processed \cup {person_id},
                     adds |-> Append(st.adds, person_id),
                     expanded |-> Append(st.expanded, person_id)]
             spouse_id == person_data.spouse_id
             st2 == IF /\ spouse_id # NoId
                       /\ spouse_id \in DOMAIN all_characters
                       /\ spouse_id \notin st1.processed
                    THEN [characters |-> DictPut(st1.characters, spouse_id),
                          processed |-> st1.processed \cup {spouse_id},
                          adds |-> Append(st1.adds, spouse_id),
                          expanded |-> st1.expanded]
                    ELSE st1
             st3 == BuildTreeChildren(ChildIds(person_id), st2, 1)
             father_id == person_data.father_id
             mother_id == person_data.mother_id
             st4 == IF /\ father_id # NoId
                       /\ father_id \in DOMAIN all_characters
                       /\ father_id \notin st3.processed
                    THEN BuildTreeFromPerson(father_id, st3)
                    ELSE st3
         IN IF /\ mother_id # NoId
               /\ mother_id \in DOMAIN all_characters
               /\ mother_id \notin st4.processed
            THEN BuildTreeFromPerson(mother_id, st4)
            ELSE st4

\* for root_id in root_ancestors: self._build_tree_from_person(root_id, processed)
RECURSIVE WalkRoots(_, _, _)
WalkRoots(roots, st, i) ==
    IF i > Len(roots) THEN st
    ELSE WalkRoots(roots, BuildTreeFromPerson(roots[i], st), i + 1)

\* "Add any remaining unconnected people": the final sweep over the store
RECURSIVE AddRemaining(_, _)
AddRemaining(keys, i) ==
    IF i > Len(all_order) THEN keys
    ELSE AddRemaining(DictPut(keys, all_order[i]), i + 1)

\* self.characters after the root-ancestor walks, before the final sweep
\* the root-ancestor walks from an empty processed set.  Beside characters
\* and processed the walk state keeps two logs: adds, the arguments of
\* processed.add in call order, and expanded, the persons whose children
\* and parents were recursed into
CompleteTreeWalk ==
    WalkRoots(RootAncestors,
              [characters |-> << >>, processed |-> {}, adds |-> << >>, expanded |-> << >>], 1)

WalkedCharacters == CompleteTreeWalk.characters

\* variant of CompleteTreeCharacters: the final sweep is left out
CompleteTreeCharactersNoSweep == WalkedCharacters

\* self.characters at the end of _build_complete_tree_structure
CompleteTreeCharacters ==
    AddRemaining(WalkedCharacters, 1)

\* the loop that writes char_data['is_root_ancestor'] into every store record
MarkRootAncestors ==
    [char_id \in DOMAIN all_characters |->
        [all_characters[char_id] EXCEPT
            !.is_root_ancestor = IF char_id \in Range(RootAncestors) THEN "yes" ELSE "no"]]

----------------------------------------------------------------------------
(* FamilyTreeGraph / EmbeddedFamilyTreeGraph: name-based bounded resolution *)

\* str.lower() on a name: an upper-case letter is its lower-case letter plus
\* CaseOffset
Lower(name) == [i \in DOMAIN name |-> IF name[i] > CaseOffset THEN name[i] - CaseOffset ELSE name[i]]

\* first ID in store order whose name equals the query case-insensitively
RECURSIVE ExactMatch(_, _)
ExactMatch(start_person_name, i) ==
    IF i > Len(all_order) THEN NoId
    ELSE IF Lower(all_id_to_name_map[all_order[i]]) = Lower(start_person_name)
         THEN all_order[i]
         ELSE ExactMatch(start_person_name, i + 1)

\* needle in haystack (Python's substring test on strings)
Contains(haystack, needle) ==
    \E k \in 0..(Len(haystack) - Len(needle)) :
        \A j \in 1..Len(needle) : haystack[k + j] = needle[j]

\* potential_matches[0]: first ID in store order whose name contains the query
RECURSIVE PartialMatch(_, _)
PartialMatch(start_person_name, i) ==
    IF i > Len(all_order) THEN NoId
    ELSE IF Contains(Lower(all_id_to_name_map[all_order[i]]), Lower(start_person_name))
         THEN all_order[i]
         ELSE PartialMatch(start_person_name, i + 1)

\* variant of FindStartId: the exact-match pass is left out
FindStartIdPartialOnly(start_person_name) == PartialMatch(start_person_name, 1)

\* FamilyTreeGraph: exact match first, then partial match
FindStartId(start_person_name) ==
    LET exact == ExactMatch(start_person_name, 1)
    IN IF exact # NoId THEN exact ELSE PartialMatch(start_person_name, 1)

\* _get_ancestors(person_id, remaining_generations, collected_ids)
RECURSIVE GetAncestors(_, _, _)
GetAncestors(person_id, remaining_generations, collected_ids) ==
    IF remaining_generations <= 0 THEN collected_ids
    ELSE IF person_id \notin DOMAIN all_characters THEN collected_ids
    ELSE LET father_id == all_characters[person_id].father_id
             mother_id == all_characters[person_id].mother_id
             c1 == IF father_id # NoId /\ father_id \in DOMAIN all_characters
                   THEN GetAncestors(father_id, remaining_generations - 1,
                                     collected_ids \cup {father_id})
                   ELSE collected_ids
         IN IF mother_id # NoId /\ mother_id \in DOMAIN all_characters
            THEN GetAncestors(mother_id, remaining_generations - 1, c1 \cup {mother_id})
            ELSE c1

\* _get_descendants(person_id, remaining_generations, collected_ids)
RECURSIVE GetDescendants(_, _, _)
RECURSIVE GetDescendantsLoop(_, _, _, _)
GetDescendantsLoop(person_id, remaining_generations, collected_ids, i) ==
    IF i > Len(all_order) THEN collected_ids
    ELSE LET char_id == all_order[i]
             char_data == all_characters[char_id]
             c1 == IF char_data.father_id = person_id \/ char_data.mother_id = person_id
                   THEN GetDescendants(char_id, remaining_generations - 1,
                                       collected_ids \cup {char_id})
                   ELSE collected_ids
         IN GetDescendantsLoop(person_id, remaining_generations, c1, i + 1)

GetDescendants(person_id, remaining_generations, collected_ids) ==
    IF remaining_generations <= 0 THEN collected_ids
    ELSE GetDescendantsLoop(person_id, remaining_generations, collected_ids, 1)

\* relevant_ids of _select_relevant_characters once start_id is found
RelevantIds(start_id, generations_back, generations_forward) ==
    LET r1 == IF generations_back > 0
              THEN GetAncestors(start_id, generations_back, {start_id})
              ELSE {start_id}
    IN IF generations_forward > 0
       THEN GetDescendants(start_id, generations_forward, r1)
       ELSE r1

----------------------------------------------------------------------------
(* EmbeddedFamilyTreeGraph *)

\* first ID in store order whose name equals the query case-insensitively;
\* the embedded graph's resolver has no partial match
EmbeddedRelevantIds(start_person_name, generations_back, generations_forward) ==
    LET start_id == ExactMatch(start_person_name, 1)
    IN IF start_id = NoId THEN {}
       ELSE RelevantIds(start_id, generations_back, generations_forward)

\* variant of SortedPair: the pair is keyed as it is met, not sorted
UnsortedPair(a, b) == <<a, b>>

\* tuple(sorted([person_id, spouse_id]))
SortedPair(a, b) == IF a <= b THEN <<a, b>> ELSE <<b, a>>

PairKeys(pairs) == {pairs[i].pair : i \in DOMAIN pairs}

\* variant of ProcessSpouseRelationships: the member met first is the primary
\* and its spouse is skipped
RECURSIVE ProcessSpouseRelationshipsFirstMet(_, _, _)
ProcessSpouseRelationshipsFirstMet(sel, acc, i) ==
    IF i > Len(sel) THEN acc
    ELSE LET person_id == sel[i]
             spouse_id == all_characters[person_id].spouse_id
             spouse_pair == SortedPair(person_id, spouse_id)
             acc1 == IF /\ spouse_id # NoId
                        /\ spouse_id \in Range(sel)
                        /\ spouse_pair \notin PairKeys(acc.pairs)
                     THEN [pairs |-> Append(acc.pairs, [pair |-> spouse_pair,
                                                       primary |-> person_id]),
                           skip |-> acc.skip \cup {spouse_id}]
                     ELSE acc
         IN ProcessSpouseRelationshipsFirstMet(sel, acc1, i + 1)

\* _process_spouse_relationships over sel (the keys of self.characters in
\* iteration order); acc = [pairs, skip]
RECURSIVE ProcessSpouseRelationships(_, _, _)
ProcessSpouseRelationships(sel, acc, i) ==
    IF i > Len(sel) THEN acc
    ELSE LET person_id == sel[i]
             spouse_id == all_characters[person_id].spouse_id
             spouse_pair == SortedPair(person_id, spouse_id)
             acc1 == IF /\ spouse_id # NoId
                        /\ spouse_id \in Range(sel)
                        /\ spouse_pair \notin PairKeys(acc.pairs)
                     THEN [pairs |-> Append(acc.pairs, [pair |-> spouse_pair,
                                                       primary |-> spouse_pair[1]]),
                           skip |-> acc.skip \cup {spouse_pair[2]}]
                     ELSE acc
         IN ProcessSpouseRelationships(sel, acc1, i + 1)

MapPut(map, k, v) ==
    [keys |-> DictPut(map.keys, k), gen |-> (k :> v) @@ map.gen]

Max(a, b) == IF a >= b THEN a ELSE b

\* variant of CalculateGen: the visited-path check is left out, only the depth
\* ceiling stops a cycle
RECURSIVE CalculateGenNoVisitedCheck(_, _, _, _)
CalculateGenNoVisitedCheck(char_id, visited, depth, memo) ==
    LET father_id == all_characters[char_id].father_id
        mother_id == all_characters[char_id].mother_id
        has_f == father_id # NoId /\ father_id \in Range(characters)
        has_m == mother_id # NoId /\ mother_id \in Range(characters)
        returns_early == \/ depth > MaxDepth
                         \/ char_id \in DOMAIN memo.gen
        rf == CalculateGenNoVisitedCheck(father_id, visited, depth + 1, memo)
        rm == CalculateGenNoVisitedCheck(mother_id, visited, depth + 1,
                     IF has_f THEN rf.memo ELSE memo)
    IN CASE depth > MaxDepth -> [val |-> 0, memo |-> memo]
         [] depth <= MaxDepth /\ char_id \in DOMAIN memo.gen ->
               [val |-> memo.gen[char_id], memo |-> memo]
         [] ~returns_early /\ has_f /\ has_m ->
               [val |-> Max(rf.val, rm.val) + 1,
                memo |-> MapPut(rm.memo, char_id, Max(rf.val, rm.val) + 1)]
         [] ~returns_early /\ has_f /\ ~has_m ->
               [val |-> rf.val + 1, memo |-> MapPut(rf.memo, char_id, rf.val + 1)]
         [] ~returns_early /\ ~has_f /\ has_m ->
               [val |-> rm.val + 1, memo |-> MapPut(rm.memo, char_id, rm.val + 1)]
         [] OTHER -> [val |-> 0, memo |-> MapPut(memo, char_id, 0)]

\* calculate_gen(char_id, visited, depth) with the memo dict (generations)
\* threaded through; returns [val, memo].  The early returns (depth ceiling,
\* memo hit, cycle, unknown ID) store nothing.  rf and rm are the calls for
\* the father and the mother; each is used only when that parent is set and
\* selected (has_f, has_m).  gen is 0 when parent_gens is empty, which is
\* also the value of the branch "not father_id and not mother_id"
RECURSIVE CalculateGen(_, _, _, _)
CalculateGen(char_id, visited, depth, memo) ==
    LET father_id == all_characters[char_id].father_id
        mother_id == all_characters[char_id].mother_id
        has_f == father_id # NoId /\ father_id \in Range(characters)
        has_m == mother_id # NoId /\ mother_id \in Range(characters)
        returns_early == \/ depth > MaxDepth
                         \/ char_id \in DOMAIN memo.gen
                         \/ char_id \in visited
                         \/ char_id \notin Range(characters)
        rf == CalculateGen(father_id, visited \cup {char_id}, depth + 1, memo)
        rm == CalculateGen(mother_id, visited \cup {char_id}, depth + 1,
                     IF has_f THEN rf.memo ELSE memo)
    IN CASE depth > MaxDepth -> [val |-> 0, memo |-> memo]
         [] depth <= MaxDepth /\ char_id \in DOMAIN memo.gen ->
               [val |-> memo.gen[char_id], memo |-> memo]
         [] /\ depth <= MaxDepth /\ char_id \notin DOMAIN memo.gen
            /\ (char_id \in visited \/ char_id \notin Range(characters)) ->
               [val |-> 0, memo |-> memo]
         [] ~returns_early /\ has_f /\ has_m ->
               [val |-> Max(rf.val, rm.val) + 1,
                memo |-> MapPut(rm.memo, char_id, Max(rf.val, rm.val) + 1)]
         [] ~returns_early /\ has_f /\ ~has_m ->
               [val |-> rf.val + 1, memo |-> MapPut(rf.memo, char_id, rf.val + 1)]
         [] ~returns_early /\ ~has_f /\ has_m ->
               [val |-> rm.val + 1, memo |-> MapPut(rm.memo, char_id, rm.val + 1)]
         [] OTHER -> [val |-> 0, memo |-> MapPut(memo, char_id, 0)]

\* variant of CalculateGenerations: the loop ends at the first person that
\* already has a generation
RECURSIVE CalculateGenerationsStopAtKnown(_, _)
CalculateGenerationsStopAtKnown(memo, i) ==
    CASE i > Len(characters) -> memo
      [] i <= Len(characters) /\ characters[i] \in DOMAIN memo.gen -> memo
      [] OTHER -> CalculateGenerationsStopAtKnown(
                      CalculateGen(characters[i], {}, 0, memo).memo, i + 1)

\* _calculate_generations: for char_id in self.characters, if not yet in
\* generations, calculate_gen(char_id, set())
RECURSIVE CalculateGenerations(_, _)
CalculateGenerations(memo, i) ==
    CASE i > Len(characters) -> memo
      [] i <= Len(characters) /\ characters[i] \in DOMAIN memo.gen ->
            CalculateGenerations(memo, i + 1)
      [] OTHER -> CalculateGenerations(CalculateGen(characters[i], {}, 0, memo).memo, i + 1)

\* _calculate_generations when the loop over self.characters meets the
\* persons in the given order
RECURSIVE CalculateGenerationsInOrder(_, _, _)
CalculateGenerationsInOrder(order, memo, i) ==
    CASE i > Len(order) -> memo
      [] i <= Len(order) /\ order[i] \in DOMAIN memo.gen ->
            CalculateGenerationsInOrder(order, memo, i + 1)
      [] OTHER -> CalculateGenerationsInOrder(order,
                      CalculateGen(order[i], {}, 0, memo).memo, i + 1)

MinOf(S) == CHOOSE x \in S : \A y \in S : x <= y

\* variant of AdjustGenerations: the raw numbers are kept
AdjustGenerationsNoShift(raw) == raw.gen

\* "Adjust generations so oldest is 0": gen - min_gen for every entry
AdjustGenerations(raw) ==
    IF raw.keys = << >> THEN << >>
    ELSE LET min_gen == MinOf({raw.gen[k] : k \in DOMAIN raw.gen})
         IN [k \in DOMAIN raw.gen |-> raw.gen[k] - min_gen]

\* _add_embedded_person_node; acc = [nodes, skip]
AddEmbeddedPersonNode(acc, char_id) ==
    IF char_id \notin Range(characters) \/ char_id \in acc.skip THEN acc
    ELSE LET spouse_id == all_characters[char_id].spouse_id
         IN IF spouse_id # NoId /\ spouse_id \in Range(characters) /\ spouse_id \notin acc.skip
            THEN [nodes |-> Append(acc.nodes, [id |-> char_id, members |-> {char_id, spouse_id}]),
                  skip |-> acc.skip \cup {spouse_id}]
            ELSE [nodes |-> Append(acc.nodes, [id |-> char_id, members |-> {char_id}]),
                  skip |-> acc.skip]

\* the members of gen_groups, over all levels: the keys of the generation
\* map, in its insertion order, that were visible when the groups were built
GenGroupAll(keys, gens, levels, skip0) ==
    SelectSeq(keys, LAMBDA k : gens[k] \in levels /\ k \notin skip0)

\* the visible keys in the order the level loop meets them: by level, and
\* within a level in the insertion order of the generation map
DrawOrder(keys, gens, levels, skip0) ==
    LET visible == GenGroupAll(keys, gens, levels, skip0)
        Before(i, j) == gens[visible[i]] < gens[visible[j]]
                          \/ (gens[visible[i]] = gens[visible[j]] /\ i < j)
        Rank(j) == Cardinality({i \in 1..Len(visible) : Before(i, j)})
    IN [r \in 1..Len(visible) |->
           visible[CHOOSE j \in 1..Len(visible) : Rank(j) = r - 1]]

\* for gen_level in sorted(gen_groups.keys()): for char_id in chars_in_gen:
\* if char_id in self.characters and char_id not in self.skip_nodes, add the
\* node; order is the sequence the two loops run through
RECURSIVE AddNodesOfGroup(_, _, _)
AddNodesOfGroup(order, acc, i) ==
    CASE i > Len(order) -> acc
      [] i <= Len(order) /\ order[i] \in Range(characters) /\ order[i] \notin acc.skip ->
            AddNodesOfGroup(order, AddEmbeddedPersonNode(acc, order[i]), i + 1)
      [] OTHER -> AddNodesOfGroup(order, acc, i + 1)

AddNodesByLevel(keys, gens, levels, skip0, acc) ==
    AddNodesOfGroup(DrawOrder(keys, gens, levels, skip0), acc, 1)

\* _get_node_id_for_person with the given skip set: NoId stands for None
RECURSIVE FirstVisibleSpouseOf(_, _, _)
FirstVisibleSpouseOf(person_id, skip, i) ==
    IF i > Len(characters) THEN NoId
    ELSE IF all_characters[characters[i]].spouse_id = person_id /\ characters[i] \notin skip
         THEN characters[i]
         ELSE FirstVisibleSpouseOf(person_id, skip, i + 1)

GetNodeIdForPerson(person_id, skip) ==
    IF person_id \in skip THEN FirstVisibleSpouseOf(person_id, skip, 1) ELSE person_id

\* _add_embedded_family_edges
RECURSIVE AddEmbeddedFamilyEdges(_, _, _)
AddEmbeddedFamilyEdges(skip, acc, i) ==
    IF i > Len(characters) THEN acc
    ELSE LET char_id == characters[i]
             child_node_id == GetNodeIdForPerson(char_id, skip)
             father_id == all_characters[char_id].father_id
             mother_id == all_characters[char_id].mother_id
             parent_id == IF father_id # NoId /\ father_id \in Range(characters) THEN father_id
                          ELSE IF mother_id # NoId /\ mother_id \in Range(characters) THEN mother_id
                          ELSE NoId
             parent_node_id == IF parent_id = NoId THEN NoId
                               ELSE GetNodeIdForPerson(parent_id, skip)
             acc1 == IF char_id \notin skip /\ child_node_id # NoId /\ parent_node_id # NoId
                     THEN Append(acc, [from |-> parent_node_id, to |-> child_node_id,
                                       kind |-> "parent-child"])
                     ELSE acc
         IN AddEmbeddedFamilyEdges(skip, acc1, i + 1)

----------------------------------------------------------------------------
(* FamilyTreeGraph: the diamond layout.  A node is [kind, a, b]: a person    *)
(* node is named by the person's ID (b = NoId); the union, spacer and       *)
(* children nodes of a pair are named from the two IDs of the key, like     *)
(* f"union_{key[0]}_{key[1]}".  An edge is [from, to, kind].                *)

Node(kind, a, b) == [kind |-> kind, a |-> a, b |-> b]
PersonNode(p) == Node("person", p, NoId)
Edge(from, to, kind) == [from |-> from, to |-> to, kind |-> kind]

\* "Add all person nodes" of _generate_svg
PersonNodes == [i \in DOMAIN characters |-> PersonNode(characters[i])]

\* first loop of _add_simple_relationships: the union pass;
\* acc = [processed_unions, nodes, edges]
RECURSIVE UnionPass(_, _)
\* variant: a union only for a pair whose two members name each other
UnionPassMutualOnly(acc, i) ==
    IF i > Len(characters) THEN acc
    ELSE LET person_id == characters[i]
             spouse_id == all_characters[person_id].spouse_id
             union_key == SortedPair(person_id, spouse_id)
             acc1 == IF /\ spouse_id # NoId
                        /\ spouse_id \in Range(characters)
                        /\ all_characters[spouse_id].spouse_id = person_id
                        /\ union_key \notin acc.processed_unions
                     THEN LET union_id == Node("union", union_key[1], union_key[2])
                              spacer_id == Node("spacer", union_key[1], union_key[2])
                          IN [processed_unions |-> acc.processed_unions \cup {union_key},
                              nodes |-> acc.nodes \o
                                  <<union_id, spacer_id,
                                    PersonNode(union_key[1]), spacer_id, PersonNode(union_key[2])>>,
                              edges |-> acc.edges \o
                                  <<Edge(PersonNode(union_key[1]), spacer_id, "invis"),
                                    Edge(spacer_id, PersonNode(union_key[2]), "invis"),
                                    Edge(PersonNode(union_key[1]), union_id, "spouse"),
                                    Edge(PersonNode(union_key[2]), union_id, "spouse")>>]
                     ELSE acc
         IN UnionPass(acc1, i + 1)

UnionPass(acc, i) ==
    IF i > Len(characters) THEN acc
    ELSE LET person_id == characters[i]
             spouse_id == all_characters[person_id].spouse_id
             union_key == SortedPair(person_id, spouse_id)
             acc1 == IF /\ spouse_id # NoId
                        /\ spouse_id \in Range(characters)
                        /\ union_key \notin acc.processed_unions
                     THEN LET union_id == Node("union", union_key[1], union_key[2])
                              spacer_id == Node("spacer", union_key[1], union_key[2])
                          IN [processed_unions |-> acc.processed_unions \cup {union_key},
                              nodes |-> acc.nodes \o
                                  <<union_id, spacer_id,
                                    PersonNode(union_key[1]), spacer_id, PersonNode(union_key[2])>>,
                              edges |-> acc.edges \o
                                  <<Edge(PersonNode(union_key[1]), spacer_id, "invis"),
                                    Edge(spacer_id, PersonNode(union_key[2]), "invis"),
                                    Edge(PersonNode(union_key[1]), union_id, "spouse"),
                                    Edge(PersonNode(union_key[2]), union_id, "spouse")>>]
                     ELSE acc
         IN UnionPass(acc1, i + 1)

\* second loop: union_children, a dict from union id to the list of children;
\* uc = [keys (union ids in insertion order), children (union id -> sequence)]
RECURSIVE UnionChildren(_, _)
UnionChildren(uc, i) ==
    IF i > Len(characters) THEN uc
    ELSE LET person_id == characters[i]
             father_id == all_characters[person_id].father_id
             mother_id == all_characters[person_id].mother_id
             union_key == SortedPair(father_id, mother_id)
             union_id == Node("union", union_key[1], union_key[2])
             uc1 == IF /\ father_id # NoId /\ mother_id # NoId
                       /\ father_id \in Range(characters)
                       /\ mother_id \in Range(characters)
                    THEN [keys |-> DictPut(uc.keys, union_id),
                          children |-> (union_id :>
                               Append(IF union_id \in DOMAIN uc.children
                                      THEN uc.children[union_id] ELSE << >>, person_id))
                               @@ uc.children]
                    ELSE uc
         IN UnionChildren(uc1, i + 1)

\* third loop: one children node per union id, connected to the union id and
\* to each child; acc = [nodes, edges]
RECURSIVE ChildrenGroups(_, _, _)
ChildrenGroups(uc, acc, i) ==
    IF i > Len(uc.keys) THEN acc
    ELSE LET union_id == uc.keys[i]
             children == uc.children[union_id]
             children_id == Node("children", union_id.a, union_id.b)
         IN ChildrenGroups(uc,
               [nodes |-> acc.nodes \o <<children_id>>
                            \o [j \in DOMAIN children |-> PersonNode(children[j])],
                edges |-> acc.edges \o <<Edge(union_id, children_id, "union-children")>>
                            \o [j \in DOMAIN children |->
                                   Edge(children_id, PersonNode(children[j]), "parent-child")]],
               i + 1)

\* last loop: the dashed single-parent edges
RECURSIVE SingleParentEdges(_, _)
SingleParentEdges(acc, i) ==
    IF i > Len(characters) THEN acc
    ELSE LET person_id == characters[i]
             father_id == all_characters[person_id].father_id
             mother_id == all_characters[person_id].mother_id
             has_f == father_id # NoId /\ father_id \in Range(characters)
             has_m == mother_id # NoId /\ mother_id \in Range(characters)
             acc1 == IF has_f /\ ~has_m
                     THEN Append(acc, Edge(PersonNode(father_id), PersonNode(person_id), "single-parent"))
                     ELSE IF has_m /\ ~has_f
                     THEN Append(acc, Edge(PersonNode(mother_id), PersonNode(person_id), "single-parent"))
                     ELSE acc
         IN SingleParentEdges(acc1, i + 1)

\* _add_simple_relationships on top of the person nodes: [nodes, edges]
AddSimpleRelationships ==
    LET unions == UnionPass([processed_unions |-> {}, nodes |-> PersonNodes, edges |-> << >>], 1)
        uc == UnionChildren([keys |-> << >>, children |-> << >>], 1)
        groups == ChildrenGroups(uc, [nodes |-> unions.nodes, edges |-> unions.edges], 1)
    IN [nodes |-> groups.nodes, edges |-> SingleParentEdges(groups.edges, 1)]

----------------------------------------------------------------------------
(* ImprovedFamilyTreeGraph: its own name lookup and recursive resolver *)

\* the lookup loop of _select_relevant_characters: the first record in store
\* order whose name equals the query case-insensitively; NoId if none
RECURSIVE ImprovedFindStartId(_, _)
ImprovedFindStartId(start_person_name, i) ==
    IF i > Len(all_order) THEN NoId
    ELSE IF Lower(all_id_to_name_map[all_order[i]]) = Lower(start_person_name)
         THEN all_order[i]
         ELSE ImprovedFindStartId(start_person_name, i + 1)

\* _add_person_and_relatives of ImprovedFamilyTreeGraph;
\* st = [characters (keys in insertion order), processed]
RECURSIVE ImprovedAddPersonAndRelatives(_, _, _, _)
RECURSIVE ImprovedAddChildren(_, _, _, _, _)
ImprovedAddPersonAndRelatives(person_id, generations_back, generations_forward, st) ==
    IF person_id \in st.processed \/ person_id \notin DOMAIN all_characters THEN st
    ELSE LET father_id == all_characters[person_id].father_id
             mother_id == all_characters[person_id].mother_id
             st1 == [characters |-> DictPut(st.characters, person_id),
                     processed |-> st.processed \cup {person_id}]
             st2 == IF generations_back > 0 /\ father_id # NoId
                       /\ father_id \in DOMAIN all_characters
                    THEN ImprovedAddPersonAndRelatives(father_id, generations_back - 1,
                                                       generations_forward, st1)
                    ELSE st1
             st3 == IF generations_back > 0 /\ mother_id # NoId
                       /\ mother_id \in DOMAIN all_characters
                    THEN ImprovedAddPersonAndRelatives(mother_id, generations_back - 1,
                                                       generations_forward, st2)
                    ELSE st2
         IN IF generations_forward > 0
            THEN ImprovedAddChildren(person_id, generations_back, generations_forward, st3, 1)
            ELSE st3

\* for char_id, char_data in self.all_characters.items(): recurse into the
\* records that name person_id as father or mother
ImprovedAddChildren(person_id, generations_back, generations_forward, st, i) ==
    IF i > Len(all_order) THEN st
    ELSE LET char_id == all_order[i]
             st1 == IF \/ all_characters[char_id].father_id = person_id
                       \/ all_characters[char_id].mother_id = person_id
                    THEN ImprovedAddPersonAndRelatives(char_id, generations_back,
                                                       generations_forward - 1, st)
                    ELSE st
         IN ImprovedAddChildren(person_id, generations_back, generations_forward, st1, i + 1)

\* _select_relevant_characters of ImprovedFamilyTreeGraph: an unmatched name
\* makes self.characters the whole store
ImprovedSelectRelevantCharacters(start_person_name, generations_back, generations_forward) ==
    LET start_person_id == ImprovedFindStartId(start_person_name, 1)
    IN IF start_person_id = NoId
       THEN all_order
       ELSE ImprovedAddPersonAndRelatives(start_person_id, generations_back, generations_forward,
                                          [characters |-> << >>, processed |-> {}]).characters

----------------------------------------------------------------------------
(* Initial states: a loaded store, no graph constructed yet *)

\* iteration orders explored for a set of IDs: ascending and descending
Ascending(S) ==
    [i \in 1..Cardinality(S) |-> CHOOSE x \in S : Cardinality({y \in S : y < x}) = i - 1]
Descending(S) ==
    [i \in 1..Cardinality(S) |-> CHOOSE x \in S : Cardinality({y \in S : y > x}) = i - 1]
Orders(S) == {Ascending(S), Descending(S)}

\* reciprocal marriages {a, b}: both spouse_id fields are set
Couples(n) == {c \in (1..n) \X (1..n) : c[1] < c[2]}
CoupleSlots(M) == UNION {{<<c[1], "spouse_id">>, <<c[2], "spouse_id">>} : c \in M}
Marry(store, M) ==
    [id \in DOMAIN store |->
        IF \E c \in M : c[1] = id
        THEN [store[id] EXCEPT !.spouse_id = (CHOOSE c \in M : c[1] = id)[2]]
        ELSE IF \E c \in M : c[2] = id
        THEN [store[id] EXCEPT !.spouse_id = (CHOOSE c \in M : c[2] = id)[1]]
        ELSE store[id]]

\* stores with at most MaxLinks links; a link is one reference field set to
\* any ID (loaded or not) or one reciprocal marriage
GeneralStores ==
    UNION {UNION {UNION {
        {Marry(StoreOf(n, S, f), M) : f \in [S -> Ids]} :
            M \in {C \in SUBSET Couples(n) :
                      /\ Cardinality(C) + Cardinality(S) <= MaxLinks
                      /\ CoupleSlots(C) \cap S = {}
                      /\ Cardinality(CoupleSlots(C)) = 2 * Cardinality(C)}} :
            S \in {T \in SUBSET Slots(n) : Cardinality(T) <= MaxLinks}} :
            n \in 0..NumPersons}

\* a single line of descent: person i is the child of person i + 1
ChainStore(len) ==
    [id \in 1..len |-> [BlankRecord EXCEPT !.father_id = IF id < len THEN id + 1 ELSE NoId]]

\* a ring of fathers: person i is the child of person i + 1 and the last
\* person is the child of the first; a ring of one is its own father
RingStore(len) ==
    [id \in 1..len |-> [BlankRecord EXCEPT !.father_id = IF id < len THEN id + 1 ELSE 1]]

\* the name index FamilyTreeData builds: here every person has the one-letter
\* name made of the letter numbered like the ID
NameIndex(store) == [id \in DOMAIN store |-> <<id>>]

Init ==
    /\ all_characters \in GeneralStores
    /\ all_order \in Orders(DOMAIN all_characters)
    /\ all_id_to_name_map = NameIndex(all_characters)
    /\ graph = "none"
    /\ request = [start |-> NoId, gb |-> 0, gf |-> 0]
    /\ characters = << >>
    /\ processed_pairs = << >>
    /\ skip_nodes = {}
    /\ raw_generations = EmptyMap
    /\ generations = << >>
    /\ nodes = << >>
    /\ edges = << >>
    /\ error = "none"
    /\ name_result = NoCall
    /\ service = NewService /\ world = NoWorld

\* D3FamilyTreeGraph.__init__ with a start person: bounded mode
D3Bounded(start, gb, gf) ==
    /\ graph = "none"
    /\ start # NoId
    /\ graph' = "d3"
    /\ request' = [start |-> start, gb |-> gb, gf |-> gf]
    /\ characters' = D3SelectRelevantCharacters(start, gb, gf)
    /\ UNCHANGED <<all_characters, all_order, all_id_to_name_map, name_result, service, world, layout, error>>

\* D3FamilyTreeGraph.__init__ without a start person and with both counts 0:
\* complete-tree mode; list(keys)[0] raises IndexError on an empty store
D3CompleteTree ==
    /\ graph = "none"
    /\ graph' = "d3"
    /\ request' = [start |-> NoId, gb |-> 0, gf |-> 0]
    /\ IF RootAncestors = << >>
       THEN /\ error' = "IndexError"
            /\ characters' = << >>
            /\ UNCHANGED all_characters
       ELSE /\ error' = "none"
            /\ characters' = CompleteTreeCharacters
            /\ all_characters' = MarkRootAncestors
    /\ UNCHANGED <<all_order, all_id_to_name_map, name_result, service, world, layout>>

\* D3FamilyTreeGraph.__init__ without a start person but with a generation
\* limit: "invalid state", the Selection is left empty
D3Invalid(gb, gf) ==
    /\ graph = "none"
    /\ gb # 0 \/ gf # 0
    /\ graph' = "d3"
    /\ request' = [start |-> NoId, gb |-> gb, gf |-> gf]
    /\ characters' = << >>
    /\ UNCHANGED <<all_characters, all_order, all_id_to_name_map, name_result, service, world, layout, error>>

\* FamilyTreeGraph.__init__ with a start name: self.characters is rebuilt from
\* the set relevant_ids, whose iteration order is not fixed; when the name is
\* not found the method returns and self.characters stays the empty dict of
\* RelGraph.__init__
FamilyBounded(start_person_name, gb, gf) ==
    /\ graph = "none"
    /\ graph' = "family"
    /\ request' = [start |-> start_person_name, gb |-> gb, gf |-> gf]
    /\ LET start_id == FindStartId(start_person_name) IN
         /\ IF start_id = NoId
            THEN characters' = << >>
            ELSE characters' \in Orders(RelevantIds(start_id, gb, gf))
    /\ UNCHANGED <<all_characters, all_order, all_id_to_name_map, name_result, service, world, layout, error>>

\* EmbeddedFamilyTreeGraph.__init__: the Selection is the whole store, or is
\* rebuilt from the set relevant_ids (iteration order not fixed), or stays the
\* empty dict of RelGraph.__init__ when the name is not found; then
\* _process_spouse_relationships runs
EmbeddedConstruct(start_person_name, gb, gf) ==
    /\ graph = "none"
    /\ graph' = "embedded"
    /\ IF start_person_name = << >>
       THEN characters' = all_order
       ELSE characters' \in Orders(EmbeddedRelevantIds(start_person_name, gb, gf))
    /\ LET sp == ProcessSpouseRelationships(characters', [pairs |-> << >>, skip |-> {}], 1)
       IN /\ processed_pairs' = sp.pairs
          /\ skip_nodes' = sp.skip
    /\ UNCHANGED <<all_characters, all_order, all_id_to_name_map, name_result, service, world, request,
                   raw_generations, generations, nodes, edges, error>>

\* EmbeddedFamilyTreeGraph.generate_graph: generations, adjustment, one node
\* per visible person level by level, then the parent-child edges
EmbeddedGenerateGraph ==
    /\ graph = "embedded"
    /\ nodes = << >> /\ raw_generations = EmptyMap
    /\ raw_generations' = CalculateGenerations(EmptyMap, 1)
    /\ generations' = AdjustGenerations(raw_generations')
    /\ LET levels == {generations'[k] : k \in {x \in DOMAIN generations' : x \notin skip_nodes}}
           drawn == AddNodesByLevel(raw_generations'.keys, generations', levels, skip_nodes,
                                    [nodes |-> << >>, skip |-> skip_nodes])
       IN /\ nodes' = drawn.nodes
          /\ skip_nodes' = drawn.skip
    /\ edges' = AddEmbeddedFamilyEdges(skip_nodes', << >>, 1)
    /\ graph' = "embedded_drawn"
    /\ UNCHANGED <<all_characters, all_order, all_id_to_name_map, name_result, service, world, request, characters,
                   processed_pairs, error>>

\* FamilyTreeGraph.__init__ without a start name: the Selection is the store
FamilyAll ==
    /\ graph = "none"
    /\ graph' = "family"
    /\ request' = [start |-> << >>, gb |-> 0, gf |-> 0]
    /\ characters' = all_order
    /\ UNCHANGED <<all_characters, all_order, all_id_to_name_map, name_result, service, world, layout, error>>

\* FamilyTreeGraph._generate_svg: the person nodes, then _add_simple_relationships
FamilyGenerate ==
    /\ graph = "family"
    /\ graph' = "family_drawn"
    /\ nodes' = AddSimpleRelationships.nodes
    /\ edges' = AddSimpleRelationships.edges
    /\ UNCHANGED <<all_characters, all_order, all_id_to_name_map, name_result, service, world, request, characters,
                   processed_pairs, skip_nodes, raw_generations, generations, error>>

Next ==
    \/ \E start \in 1..(NumPersons + 1), gb \in 0..MaxGen, gf \in 0..MaxGen :
         D3Bounded(start, gb, gf)
    \/ D3CompleteTree
    \/ \E gb \in 0..MaxGen, gf \in 0..MaxGen : D3Invalid(gb, gf)
    \/ \E name \in {<<i>> : i \in 1..(NumPersons + 1)}, gb \in 0..MaxGen, gf \in 0..MaxGen :
         FamilyBounded(name, gb, gf)

Spec == Init /\ [][Next]_vars

\* the same resolution run a second time on the same graph object against the
\* same store: the branch of __init__ that the recorded request selects
D3Again ==
    /\ graph = "d3"
    /\ graph' = "d3_again"
    /\ UNCHANGED request
    /\ IF request.start # NoId
       THEN /\ characters' = D3SelectRelevantCharacters(request.start, request.gb, request.gf)
            /\ UNCHANGED <<all_characters, error>>
       ELSE IF request.gb = 0 /\ request.gf = 0
       THEN IF RootAncestors = << >>
            THEN /\ error' = "IndexError"
                 /\ characters' = << >>
                 /\ UNCHANGED all_characters
            ELSE /\ error' = "none"
                 /\ characters' = CompleteTreeCharacters
                 /\ all_characters' = MarkRootAncestors
       ELSE /\ characters' = << >>
            /\ UNCHANGED <<all_characters, error>>
    /\ UNCHANGED <<all_order, all_id_to_name_map, name_result, service, world, layout>>

NextRepeat ==
    \/ \E start \in 1..(NumPersons + 1), gb \in 0..MaxGen, gf \in 0..MaxGen :
         D3Bounded(start, gb, gf)
    \/ D3CompleteTree
    \/ \E gb \in 0..MaxGen, gf \in 0..MaxGen : D3Invalid(gb, gf)
    \/ D3Again

SpecRepeat == Init /\ [][NextRepeat]_vars

\* the generation counts tried by the layout specification
LayoutGens == {0, MaxGen}

NextLayout ==
    \/ \E name \in {<<i>> : i \in 1..NumPersons} \cup {<< >>}, gb \in LayoutGens, gf \in LayoutGens :
         EmbeddedConstruct(name, gb, gf)
    \/ EmbeddedGenerateGraph
    \/ \E name \in {<<i>> : i \in 1..NumPersons}, gb \in LayoutGens, gf \in LayoutGens :
         FamilyBounded(name, gb, gf)
    \/ FamilyAll
    \/ FamilyGenerate

SpecLayout == Init /\ [][NextLayout]_vars

\* ImprovedFamilyTreeGraph.__init__: with a start name the resolver runs,
\* without one the Selection is the store
ImprovedConstruct(start_person_name, gb, gf) ==
    /\ graph = "none"
    /\ graph' = "improved"
    /\ request' = [start |-> start_person_name, gb |-> gb, gf |-> gf]
    /\ characters' = IF start_person_name # << >>
                     THEN ImprovedSelectRelevantCharacters(start_person_name, gb, gf)
                     ELSE all_order
    /\ UNCHANGED <<all_characters, all_order, all_id_to_name_map, name_result, service, world, layout, error>>

\* the start names tried: the letter of each ID in lower and in upper case,
\* one letter that names nobody, and no name
ImprovedNames ==
    {<<i>> : i \in 1..(NumPersons + 1)} \cup {<<i + CaseOffset>> : i \in 1..NumPersons} \cup {<< >>}

NextImproved ==
    \E name \in ImprovedNames, gb \in 0..MaxGen, gf \in 0..MaxGen : ImprovedConstruct(name, gb, gf)

SpecImproved == Init /\ [][NextImproved]_vars

\* a new data service in front of NumDirs directories; no graph is built
InitService ==
    /\ all_characters = << >>
    /\ all_order = << >>
    /\ all_id_to_name_map = << >>
    /\ graph = "none"
    /\ request = [start |-> NoId, gb |-> 0, gf |-> 0]
    /\ characters = << >>
    /\ processed_pairs = << >>
    /\ skip_nodes = {}
    /\ raw_generations = EmptyMap
    /\ generations = << >>
    /\ nodes = << >>
    /\ edges = << >>
    /\ error = "none"
    /\ name_result = NoCall
    /\ service = NewService
    /\ \E disk \in [Dirs -> Directories] : world = [NoWorld EXCEPT !.disk = disk]

ServiceFrame ==
    UNCHANGED <<all_characters, all_order, all_id_to_name_map, graph, request, characters,
                layout, error, name_result>>

NextService ==
    \/ \E xml_data_dir \in Dirs, force_reload \in BOOLEAN :
         LoadFromXml(xml_data_dir, force_reload) /\ ServiceFrame
    \/ ClearCache /\ ServiceFrame

SpecService == InitService /\ [][NextService]_vars

\* stores that are one line of descent, or one ring of fathers, of up to
\* DeepChain persons, drawn whole by the embedded layout
InitDeep ==
    /\ all_characters \in {ChainStore(len) : len \in 1..DeepChain}
                            \cup {RingStore(len) : len \in 1..DeepChain}
    /\ all_order \in Orders(DOMAIN all_characters)
    /\ all_id_to_name_map = NameIndex(all_characters)
    /\ graph = "none"
    /\ request = [start |-> NoId, gb |-> 0, gf |-> 0]
    /\ characters = << >>
    /\ processed_pairs = << >>
    /\ skip_nodes = {}
    /\ raw_generations = EmptyMap
    /\ generations = << >>
    /\ nodes = << >>
    /\ edges = << >>
    /\ error = "none"
    /\ name_result = NoCall
    /\ service = NewService /\ world = NoWorld

NextDeep ==
    \/ EmbeddedConstruct(<< >>, 0, 0)
    \/ EmbeddedGenerateGraph

SpecDeep == InitDeep /\ [][NextDeep]_vars

\* every general store and every father ring of up to RingLen persons, drawn
\* whole by the embedded layout; generate_graph is called on every
\* constructed graph (the caller constructs and then draws)
InitGenerations ==
    /\ all_characters \in GeneralStores \cup {RingStore(len) : len \in 1..RingLen}
    /\ all_order \in Orders(DOMAIN all_characters)
    /\ all_id_to_name_map = NameIndex(all_characters)
    /\ graph = "none"
    /\ request = [start |-> NoId, gb |-> 0, gf |-> 0]
    /\ characters = << >>
    /\ processed_pairs = << >>
    /\ skip_nodes = {}
    /\ raw_generations = EmptyMap
    /\ generations = << >>
    /\ nodes = << >>
    /\ edges = << >>
    /\ error = "none"
    /\ name_result = NoCall
    /\ service = NewService /\ world = NoWorld

SpecGenerations ==
    InitGenerations /\ [][NextDeep]_vars /\ WF_vars(EmbeddedGenerateGraph)

\* display names: one to MaxNameLen letters, each lower or upper case
Letters == (1..NumLetters) \cup {CaseOffset + l : l \in 1..NumLetters}
Names == UNION {[1..len -> Letters] : len \in 1..MaxNameLen}

\* stores of unrelated persons whose display names are any names, shared
\* names and names contained in other names included
InitNames ==
    /\ all_characters \in {[id \in 1..n |-> BlankRecord] : n \in 1..NumPersons}
    /\ all_order \in Orders(DOMAIN all_characters)
    /\ all_id_to_name_map \in [DOMAIN all_characters -> Names]
    /\ graph = "none"
    /\ request = [start |-> NoId, gb |-> 0, gf |-> 0]
    /\ characters = << >>
    /\ processed_pairs = << >>
    /\ skip_nodes = {}
    /\ raw_generations = EmptyMap
    /\ generations = << >>
    /\ nodes = << >>
    /\ edges = << >>
    /\ error = "none"
    /\ name_result = NoCall
    /\ service = NewService /\ world = NoWorld

NextNames == \E name \in Names : FamilyBounded(name, 0, 0)

SpecNames == InitNames /\ [][NextNames]_vars

----------------------------------------------------------------------------
(* FamilyTreeData: loading the records and reading a label.  Here a text   *)
(* is a sequence of pieces (a letter, a blank, the ID, a fixed phrase);    *)
(* None and the empty text are both << >>, as parse_xml turns "" into None *)

\* what one XML file can hold: no usable id (NoId) or an id, and a first
\* name and a middle name that may each be missing; or no well-formed XML
XmlFiles ==
    [parses : {TRUE}, id : 0..NumPersons, name : {<< >>, <<"a">>},
     middle_name : {<< >>, <<"B">>}]
    \cup {[parses |-> FALSE, id |-> NoId, name |-> << >>, middle_name |-> << >>]}

\* " ".join(name_parts) if name_parts else None
DisplayName(character_dict) ==
    IF character_dict.name # << >> /\ character_dict.middle_name # << >>
    THEN character_dict.name \o <<" ">> \o character_dict.middle_name
    ELSE character_dict.name \o character_dict.middle_name

\* f"Unnamed Character ({char_id})"
UnnamedCharacter(char_id) == <<"Unnamed Character (", ToString(char_id), ")">>

\* the record kept for a file: the fields of character_dict
CharacterDict(file) ==
    [father_id |-> NoId, mother_id |-> NoId, spouse_id |-> NoId,
     is_root_ancestor |-> "unset", name |-> file.name, middle_name |-> file.middle_name]

\* variant of ProcessXmlFile: the display name is stored as it is, None for
\* a record without a name
ProcessXmlFileNoPlaceholder(file) ==
    IF ~file.parses \/ file.id = NoId
    THEN [characters_by_id |-> all_characters, order |-> all_order,
          id_to_name_map |-> all_id_to_name_map]
    ELSE [characters_by_id |-> (file.id :> CharacterDict(file)) @@ all_characters,
          order |-> DictPut(all_order, file.id),
          id_to_name_map |-> (file.id :> DisplayName(file)) @@ all_id_to_name_map]

\* _process_xml_file: a file that does not parse (ParseError is caught) or
\* has no id changes nothing; otherwise the record is stored under its id
\* and the name index gets the display name or the placeholder
ProcessXmlFile(file) ==
    IF ~file.parses \/ file.id = NoId
    THEN [characters_by_id |-> all_characters, order |-> all_order,
          id_to_name_map |-> all_id_to_name_map]
    ELSE [characters_by_id |-> (file.id :> CharacterDict(file)) @@ all_characters,
          order |-> DictPut(all_order, file.id),
          id_to_name_map |->
              (file.id :> IF DisplayName(file) # << >>
                          THEN DisplayName(file)
                          ELSE UnnamedCharacter(file.id)) @@ all_id_to_name_map]

\* get_name(char_id)
GetName(char_id) ==
    IF char_id = NoId THEN <<"Unknown Character (No ID)">>
    ELSE IF char_id \in DOMAIN all_id_to_name_map THEN all_id_to_name_map[char_id]
    ELSE <<"Unknown Character (", ToString(char_id), ")">>

\* an empty FamilyTreeData, before any file is read
InitLoad ==
    /\ all_characters = << >>
    /\ all_order = << >>
    /\ all_id_to_name_map = << >>
    /\ graph = "none"
    /\ request = [start |-> NoId, gb |-> 0, gf |-> 0]
    /\ characters = << >>
    /\ processed_pairs = << >>
    /\ skip_nodes = {}
    /\ raw_generations = EmptyMap
    /\ generations = << >>
    /\ nodes = << >>
    /\ edges = << >>
    /\ error = "none"
    /\ name_result = NoCall
    /\ service = NewService /\ world = NoWorld

\* one call of _process_xml_file
LoadFile(file) ==
    /\ all_characters' = ProcessXmlFile(file).characters_by_id
    /\ all_order' = ProcessXmlFile(file).order
    /\ all_id_to_name_map' = ProcessXmlFile(file).id_to_name_map
    /\ UNCHANGED <<graph, request, characters, layout, error, name_result, service, world>>

\* one call of get_name with a loaded, an unknown or an empty ID
GetNameCall(char_id) ==
    /\ name_result' = [called |-> TRUE, char_id |-> char_id, text |-> GetName(char_id)]
    /\ UNCHANGED <<all_characters, all_order, all_id_to_name_map, graph, request,
                   characters, layout, error, service, world>>

NextLoad ==
    \/ \E file \in XmlFiles : LoadFile(file)
    \/ \E char_id \in 0..(NumPersons + 1) : GetNameCall(char_id)

SpecLoad == InitLoad /\ [][NextLoad]_vars

----------------------------------------------------------------------------
(* What the claims speak about, stated on the store itself *)

Selection == Range(characters)
Store == DOMAIN all_characters

\* the records a person's father_id / mother_id resolve to
ParentsOf(p) ==
    {q \in Store : q # NoId /\ (all_characters[p].father_id = q \/ all_characters[p].mother_id = q)}

\* the records that name p as father or mother
ChildrenOf(p) ==
    {c \in Store : all_characters[c].father_id = p \/ all_characters[c].mother_id = p}

\* the record p's spouse_id resolves to, if any
SpouseOf(p) == {q \in Store : q # NoId /\ all_characters[p].spouse_id = q}

\* persons reachable from the persons of S by between 1 and k parent steps
RECURSIVE AncestorsWithin(_, _)
AncestorsWithin(S, k) ==
    IF k <= 0 THEN {}
    ELSE LET P == UNION {ParentsOf(p) : p \in S} IN P \cup AncestorsWithin(P, k - 1)

\* persons reachable from the persons of S by between 1 and k child steps
RECURSIVE DescendantsWithin(_, _)
DescendantsWithin(S, k) ==
    IF k <= 0 THEN {}
    ELSE LET C == UNION {ChildrenOf(p) : p \in S} IN C \cup DescendantsWithin(C, k - 1)

D3BoundedDone == graph = "d3" /\ request.start # NoId
D3Resolved == D3BoundedDone /\ request.start \in Store
D3CompleteDone == graph = "d3" /\ request.start = NoId /\ request.gb = 0 /\ request.gf = 0
FamilyDone == graph \in {"family", "family_drawn"} /\ request.start # << >>

\* the record the name-based resolver starts from: the query is a one-letter
\* name and every record's name is the letter of its ID
NameMatches(query) == {id \in Store : Contains(Lower(all_id_to_name_map[id]), Lower(query))}
FamilyResolved == FamilyDone /\ NameMatches(request.start) # {}
FamilyRoot == CHOOSE id \in NameMatches(request.start) : TRUE

NoDuplicates(seq) == Len(seq) = Cardinality(Range(seq))

----------------------------------------------------------------------------
(* C1: complete-tree resolution over a non-empty store selects exactly the  *)
(* persons of the store, each once, whatever the parent / spouse references *)
C1_CompleteTreeSelectsEveryone ==
    (D3CompleteDone /\ Store # {}) =>
        /\ Selection = Store
        /\ NoDuplicates(characters)
        /\ error = "none"
    /\ name_result = NoCall
    /\ service = NewService /\ world = NoWorld

\* a complete-tree run in which some person is reached by no root-ancestor
\* walk and enters the Selection through the final sweep only
C1_Witness ==
    /\ D3CompleteDone
    /\ Cardinality(Store) >= 2
    /\ Range(WalkedCharacters) # Store
    /\ Selection = Store

(* C7: bounded mode with generations_forward = 0 selects exactly the root,  *)
(* the root's resolvable spouse and the persons within generations_back     *)
(* parent steps of the root; the ancestor walk of the name-based resolver   *)
(* collects exactly the root and those ancestors                            *)
C7_BoundedAncestors ==
    /\ (D3Resolved /\ request.gf = 0) =>
          Selection = {request.start} \cup SpouseOf(request.start)
                        \cup AncestorsWithin({request.start}, request.gb)
    /\ (FamilyResolved /\ request.gf = 0) =>
          Selection = {FamilyRoot} \cup AncestorsWithin({FamilyRoot}, request.gb)

\* the scenario of the claim: C has father A and mother B, root = C, one
\* generation back selects the three of them
C7_Witness ==
    /\ D3Resolved /\ request.gf = 0 /\ request.gb = 1
    /\ Cardinality(ParentsOf(request.start)) = 2
    /\ Selection = {request.start} \cup ParentsOf(request.start)
    /\ Cardinality(Selection) = 3

(* C8: bounded mode with generations_back = 0 selects exactly the root, the *)
(* root's resolvable spouse and the persons within generations_forward      *)
(* child steps of the root; the descendant walk of the name-based resolver  *)
(* collects exactly the root and those descendants                          *)
C8_BoundedDescendants ==
    /\ (D3Resolved /\ request.gb = 0) =>
          Selection = {request.start} \cup SpouseOf(request.start)
                        \cup DescendantsWithin({request.start}, request.gf)
    /\ (FamilyResolved /\ request.gb = 0) =>
          Selection = {FamilyRoot} \cup DescendantsWithin({FamilyRoot}, request.gf)

\* the scenario of the claim: B is a child of A and C a child of B, root = A,
\* two generations forward selects the three of them
C8_Witness ==
    /\ D3Resolved /\ request.gb = 0 /\ request.gf = 2
    /\ \E b, c \in Store :
          /\ Cardinality({request.start, b, c}) = 3
          /\ ChildrenOf(request.start) = {b}
          /\ ChildrenOf(b) = {c}
          /\ Selection = {request.start, b, c}

(* C9: the ID-based resolver always selects the root's resolvable spouse,   *)
(* and selects nobody but the root, that spouse, the ancestors within       *)
(* generations_back and the descendants within generations_forward: no      *)
(* other person's spouse is added for being a spouse                        *)
C9_OnlyRootSpouse ==
    D3Resolved =>
        /\ SpouseOf(request.start) \subseteq Selection
        /\ Selection \subseteq
              {request.start} \cup SpouseOf(request.start)
                \cup AncestorsWithin({request.start}, request.gb)
                \cup DescendantsWithin({request.start}, request.gf)

\* generation counts (0, 0): the spouse is selected although no walk reaches it
C9_Witness ==
    /\ D3Resolved /\ request.gb = 0 /\ request.gf = 0
    /\ \E s \in SpouseOf(request.start) : Selection = {request.start, s} /\ s # request.start

(* C10: a root that resolves to no record (an unknown ID, or a name that no *)
(* record's name contains) gives an empty Selection and no error            *)
C10_NotFoundIsEmpty ==
    /\ (D3BoundedDone /\ request.start \notin Store) => (characters = << >> /\ error = "none")
    /\ (FamilyDone /\ NameMatches(request.start) = {}) => (characters = << >> /\ error = "none")

\* an unknown root requested from a store that holds records
C10_Witness ==
    /\ D3BoundedDone /\ request.start \notin Store
    /\ Store # {}
    /\ request.gb > 0 /\ request.gf > 0
    /\ characters = << >>

----------------------------------------------------------------------------
(* Layout claims *)

EmbeddedBuilt == graph \in {"embedded", "embedded_drawn"}
EmbeddedDrawn == graph = "embedded_drawn"
FamilyDrawn == graph = "family_drawn"

\* the processed spouse pairs a person is a member of
PairsOf(p) == {k \in PairKeys(processed_pairs) : p = k[1] \/ p = k[2]}

(* C2: in the embedded layout every selected person is either a visible     *)
(* standalone node (not in skip_nodes, in no processed pair) or a member of *)
(* exactly one processed spouse pair, also when spouse references are not   *)
(* reciprocal (stated for the Selections in which nobody is named as their  *)
(* own spouse)                                                              *)
C2_EveryPersonExactlyOnce ==
    (EmbeddedBuilt /\ \A q \in Selection : all_characters[q].spouse_id # q) =>
        \A p \in Selection :
            \/ (p \notin skip_nodes /\ PairsOf(p) = {})
            \/ Cardinality(PairsOf(p)) = 1

\* the persons named by the label of some drawn node
NamedInOutput == UNION {nodes[i].members : i \in DOMAIN nodes}

\* the drawn nodes: every selected person is named by the label of one node
C2_EveryPersonDrawn ==
    (EmbeddedDrawn /\ \A q \in Selection : all_characters[q].spouse_id # q) =>
        Selection \subseteq NamedInOutput

\* the distinct unordered pairs {a, b} of selected persons of which one names
\* the other as spouse
SpousePairs ==
    {{a, all_characters[a].spouse_id} :
        a \in {x \in Selection : all_characters[x].spouse_id \in Selection}}

UnionNodes == {i \in DOMAIN nodes : nodes[i].kind = "union"}

(* C3: one Union per unordered spouse pair of the Selection, in both union  *)
(* passes and for both iteration orders: the embedded pre-pass records one  *)
(* key per pair, the diamond layout creates one union node per pair, and    *)
(* the number of unions is the number of pairs                              *)
C3_OneUnionPerPair ==
    /\ EmbeddedBuilt =>
          /\ Len(processed_pairs) = Cardinality(SpousePairs)
          /\ \A pr \in SpousePairs :
                Cardinality({i \in DOMAIN processed_pairs :
                    {processed_pairs[i].pair[1], processed_pairs[i].pair[2]} = pr}) = 1
    /\ FamilyDrawn =>
          /\ Cardinality(UnionNodes) = Cardinality(SpousePairs)
          /\ \A pr \in SpousePairs :
                Cardinality({i \in UnionNodes : {nodes[i].a, nodes[i].b} = pr}) = 1

\* a couple whose members name each other, met from the larger ID first
\* (descending iteration order), in the diamond layout
C3_Witness ==
    /\ FamilyDrawn
    /\ \E a, b \in Selection :
          /\ a < b
          /\ all_characters[a].spouse_id = b /\ all_characters[b].spouse_id = a
          /\ \E i, j \in DOMAIN characters : i < j /\ characters[i] = b /\ characters[j] = a
          /\ Cardinality({i \in UnionNodes : {nodes[i].a, nodes[i].b} = {a, b}}) = 1

\* the fathers and mothers of p that are in the Selection
SelectedParentsOf(p) == ParentsOf(p) \cap Selection

\* no person is their own ancestor
Acyclic == \A p \in Store : p \notin AncestorsWithin({p}, Cardinality(Store))

MaxOf(S) == CHOOSE x \in S : \A y \in S : x >= y

RawGen(p) == raw_generations.gen[p]

(* C4: under acyclic input the generation map of _calculate_generations     *)
(* gives every person with a parent in the Selection 1 + the largest        *)
(* generation of those parents, and every other person 0, for every         *)
(* processing order and every length of ancestor chain                      *)
C4_GenerationIsOnePlusMaxParent ==
    (EmbeddedDrawn /\ Acyclic) =>
        \A p \in Selection :
            RawGen(p) = IF SelectedParentsOf(p) = {} THEN 0
                        ELSE 1 + MaxOf({RawGen(q) : q \in SelectedParentsOf(p)})

\* the same statement for the stores whose lines of descent stay within the
\* depth ceiling
C4_WithinDepthCeiling ==
    (EmbeddedDrawn /\ Acyclic /\ Cardinality(Store) <= MaxDepth + 1) =>
        \A p \in Selection :
            RawGen(p) = IF SelectedParentsOf(p) = {} THEN 0
                        ELSE 1 + MaxOf({RawGen(q) : q \in SelectedParentsOf(p)})

\* X names Y as father, Y names X as father, neither names a mother, and
\* both are selected
MutualFathers(x, y) ==
    /\ x # y /\ x \in Selection /\ y \in Selection
    /\ all_characters[x].father_id = y /\ all_characters[y].father_id = x
    /\ all_characters[x].mother_id = NoId /\ all_characters[y].mother_id = NoId

C6_AdjustedGenerationsStartAtZero ==
    (EmbeddedDrawn /\ Selection # {}) =>
        /\ DOMAIN generations = Selection
        /\ \A p \in Selection : generations[p] \in Nat
        /\ \E p \in Selection : generations[p] = 0

\* a cyclic Selection whose smallest raw generation is not 0
C6_Witness ==
    /\ EmbeddedDrawn /\ Selection # {}
    /\ \A p \in Selection : RawGen(p) > 0
    /\ \E p \in Selection : generations[p] = 0

----------------------------------------------------------------------------
(* C11: in the ID-based bounded resolver the upward and the downward walk   *)
(* are independent: the Selection is exactly the root, the root's           *)
(* resolvable spouse, the ancestors of the root within generations_back and *)
(* the descendants of the root within generations_forward; a person reached *)
(* upward contributes no descendants and a person reached downward no       *)
(* ancestors                                                                *)
C11_WalksAreIndependent ==
    D3Resolved =>
        Selection = {request.start} \cup SpouseOf(request.start)
                      \cup AncestorsWithin({request.start}, request.gb)
                      \cup DescendantsWithin({request.start}, request.gf)

\* both counts positive, a parent of the root is selected and that parent's
\* other child (a sibling of the root) is not
C11_Witness ==
    /\ D3Resolved /\ request.gb > 0 /\ request.gf > 0
    /\ \E par \in ParentsOf(request.start) :
          /\ par \in Selection
          /\ \E sib \in ChildrenOf(par) : sib # request.start /\ sib \notin Selection

----------------------------------------------------------------------------
----------------------------------------------------------------------------
(* C13: the name-based resolver starts from the first record in store      *)
(* order whose name equals the query up to letter case, even when an       *)
(* earlier record's name merely contains the query; without such a record  *)
(* from the first record whose name contains the query up to letter case;  *)
(* without that either, no root is found and the Selection stays empty     *)
SameLetter(x, y) == x = y \/ x = y + CaseOffset \/ y = x + CaseOffset

EqualsIgnoringCase(name, query) ==
    Len(name) = Len(query) /\ \A j \in 1..Len(query) : SameLetter(name[j], query[j])

ContainsIgnoringCase(name, query) ==
    \E k \in 0..(Len(name) - Len(query)) :
        \A j \in 1..Len(query) : SameLetter(name[k + j], query[j])

ExactPositions(query) ==
    {i \in 1..Len(all_order) : EqualsIgnoringCase(all_id_to_name_map[all_order[i]], query)}

ContainingPositions(query) ==
    {i \in 1..Len(all_order) : ContainsIgnoringCase(all_id_to_name_map[all_order[i]], query)}

C13_NameLookup ==
    (graph = "family" /\ request.gb = 0 /\ request.gf = 0) =>
        IF ExactPositions(request.start) # {}
        THEN characters = <<all_order[MinOf(ExactPositions(request.start))]>>
        ELSE IF ContainingPositions(request.start) # {}
        THEN characters = <<all_order[MinOf(ContainingPositions(request.start))]>>
        ELSE characters = << >>

\* a lookup where the first record merely contains the query, a later record
\* equals it in another letter case, and the later record is the root
C13_Witness ==
    /\ graph = "family"
    /\ Len(all_order) >= 2
    /\ 1 \in ContainingPositions(request.start)
    /\ 1 \notin ExactPositions(request.start)
    /\ ExactPositions(request.start) # {}
    /\ characters = <<all_order[MinOf(ExactPositions(request.start))]>>
    /\ all_id_to_name_map[characters[1]] # request.start

----------------------------------------------------------------------------
(* C14: in the diamond layout every selected person with both parents      *)
(* selected is attached once, as a child of the union keyed by the sorted  *)
(* (father, mother) pair, and has no single-parent edge; a person with     *)
(* exactly one parent selected has exactly one single-parent edge, from    *)
(* that parent, and no union attachment; a person with no selected parent  *)
(* has neither                                                              *)
FatherSelected(p) ==
    all_characters[p].father_id # NoId /\ all_characters[p].father_id \in Selection
MotherSelected(p) ==
    all_characters[p].mother_id # NoId /\ all_characters[p].mother_id \in Selection

\* positions of the edges that attach p below a children node / a lone parent
UnionAttachments(p) ==
    {i \in DOMAIN edges : /\ edges[i].kind = "parent-child"
                          /\ edges[i].to = PersonNode(p)
                          /\ edges[i].from.kind = "children"}
SingleParentAttachments(p) ==
    {i \in DOMAIN edges : edges[i].kind = "single-parent" /\ edges[i].to = PersonNode(p)}

\* p hangs below the children node of the pair key, and that node below the
\* union node of the same key
AttachedBelow(p, key) ==
    /\ \A i \in UnionAttachments(p) : edges[i].from = Node("children", key[1], key[2])
    /\ \E i \in DOMAIN edges :
          edges[i] = Edge(Node("union", key[1], key[2]), Node("children", key[1], key[2]),
                          "union-children")

\* the attachments are counted as the claim says, whatever node the union
\* key names
C14_AttachmentCounts ==
    FamilyDrawn => \A p \in Selection :
        LET f == all_characters[p].father_id
            m == all_characters[p].mother_id
        IN CASE FatherSelected(p) /\ MotherSelected(p) ->
                   /\ Cardinality(UnionAttachments(p)) = 1
                   /\ AttachedBelow(p, SortedPair(f, m))
                   /\ SingleParentAttachments(p) = {}
             [] FatherSelected(p) /\ ~MotherSelected(p) ->
                   /\ UnionAttachments(p) = {}
                   /\ Cardinality(SingleParentAttachments(p)) = 1
                   /\ \A i \in SingleParentAttachments(p) : edges[i].from = PersonNode(f)
             [] ~FatherSelected(p) /\ MotherSelected(p) ->
                   /\ UnionAttachments(p) = {}
                   /\ Cardinality(SingleParentAttachments(p)) = 1
                   /\ \A i \in SingleParentAttachments(p) : edges[i].from = PersonNode(m)
             [] OTHER -> UnionAttachments(p) = {} /\ SingleParentAttachments(p) = {}

\* the union a child is attached to is a union of the drawing (child, father
\* and mother three different persons)
C14_ChildAttachedToUnion ==
    FamilyDrawn => \A p \in Selection :
        (/\ FatherSelected(p) /\ MotherSelected(p)
         /\ Cardinality({p, all_characters[p].father_id, all_characters[p].mother_id}) = 3) =>
            \E i \in UnionNodes :
                nodes[i] = Node("union", SortedPair(all_characters[p].father_id,
                                                    all_characters[p].mother_id)[1],
                                         SortedPair(all_characters[p].father_id,
                                                    all_characters[p].mother_id)[2])

----------------------------------------------------------------------------
(* C15: of every processed spouse pair the primary is the smaller ID and   *)
(* the skipped member the larger one, and the primary map and the skip set *)
(* are determined by the Selection as a set: they are the same for every   *)
(* order in which the Selection is iterated                                *)
SmallerOf(a, b) == IF a <= b THEN a ELSE b
LargerOf(a, b) == IF a <= b THEN b ELSE a

\* the selected persons whose spouse is selected too
Married == {p \in Selection : all_characters[p].spouse_id # NoId
                                /\ all_characters[p].spouse_id \in Selection}

\* the primary map as a set of <<smaller, larger, primary>>
PrimaryMap ==
    {<<processed_pairs[i].pair[1], processed_pairs[i].pair[2], processed_pairs[i].primary>> :
        i \in DOMAIN processed_pairs}

C15_PrimaryIsSmallerId ==
    EmbeddedBuilt =>
        /\ PrimaryMap = {<<SmallerOf(p, all_characters[p].spouse_id),
                           LargerOf(p, all_characters[p].spouse_id),
                           SmallerOf(p, all_characters[p].spouse_id)>> : p \in Married}
        /\ skip_nodes = {LargerOf(p, all_characters[p].spouse_id) : p \in Married}
        /\ NoDuplicates(processed_pairs)

\* a couple whose larger ID is iterated first and named the smaller one as
\* spouse: the smaller ID is still the primary and the larger one is skipped
C15_Witness ==
    /\ EmbeddedBuilt
    /\ Len(characters) >= 2
    /\ characters[1] > characters[2]
    /\ all_characters[characters[1]].spouse_id = characters[2]
    /\ <<characters[2], characters[1], characters[2]>> \in PrimaryMap
    /\ characters[1] \in skip_nodes

----------------------------------------------------------------------------
(* C16: in complete-tree mode a person is a starting point (root ancestor) *)
(* only when they have no resolvable parent and no person who has a        *)
(* resolvable parent names them as spouse, also when spouse references are *)
(* not reciprocal                                                           *)
HasResolvableParent(p) == ParentsOf(p) \cap Store # {}

NamedAsSpouseByPersonWithParent(p) ==
    \E q \in Store : HasResolvableParent(q) /\ all_characters[q].spouse_id = p

RootByDefinition(p) == ~HasResolvableParent(p) /\ ~NamedAsSpouseByPersonWithParent(p)

\* the persons the run marked as root ancestors
MarkedRoots == {p \in Store : all_characters[p].is_root_ancestor = "yes"}

\* the second loop found a root ancestor, the "first person" fallback was
\* not needed
FoundRootAncestors ==
    RootAncestorsLoop([root_ancestors |-> << >>, root_family_units |-> {}], 1).root_ancestors
        # << >>

C16_RootAncestorOnlyByDefinition ==
    (D3CompleteDone /\ Store # {} /\ FoundRootAncestors) =>
        \A p \in MarkedRoots : RootByDefinition(p)

----------------------------------------------------------------------------
(* C17: of a couple A, B who name each other as spouse and have no         *)
(* resolvable parent exactly one is a starting point of the complete-tree  *)
(* walk, in every store-iteration order, and no two starting points have   *)
(* the same family-unit key                                                 *)
UnitOf(p) == {p} \cup ({all_characters[p].spouse_id} \ {NoId})

RootCouples ==
    {c \in SUBSET Store :
        /\ Cardinality(c) = 2
        /\ \A a \in c : /\ ~HasResolvableParent(a)
                         /\ all_characters[a].spouse_id \in c \ {a}}

C17_OneStartingPointPerFamilyUnit ==
    (D3CompleteDone /\ Store # {}) =>
        /\ \A c \in RootCouples : Cardinality(c \cap MarkedRoots) = 1
        /\ \A p, q \in MarkedRoots : UnitOf(p) = UnitOf(q) => p = q

\* a couple without parents whose larger ID comes first in the store: that
\* member is the starting point and the other one is not
C17_Witness ==
    /\ D3CompleteDone
    /\ Len(all_order) >= 2
    /\ all_order[1] > all_order[2]
    /\ {all_order[1], all_order[2]} \in RootCouples
    /\ all_order[1] \in MarkedRoots
    /\ all_order[2] \notin MarkedRoots

----------------------------------------------------------------------------
(* C18: the store is read-only during the pipeline: no step of resolution, *)
(* generation assignment or drawing changes the key set of the store or a  *)
(* field of a record                                                        *)
C18_StoreIsReadOnly == [][all_characters' = all_characters]_vars

----------------------------------------------------------------------------
(* C19: every ID of a Selection produced by bounded or complete-tree       *)
(* resolution is a key of the store: a father_id, mother_id or spouse_id   *)
(* that resolves to no record never enters the Selection, and no error is  *)
(* raised over a store that has records                                     *)
DanglingReferences(p) ==
    {all_characters[p].father_id, all_characters[p].mother_id, all_characters[p].spouse_id}
        \ (Store \cup {NoId})

C19_DanglingReferencesAreAbsent ==
    (graph \in {"d3", "family"}) =>
        /\ Selection \subseteq Store
        /\ Store # {} => error = "none"

\* a bounded resolution that walked up from a root whose spouse_id and
\* father_id both resolve to no record
C19_Witness ==
    /\ D3Resolved
    /\ request.gb > 0
    /\ all_characters[request.start].spouse_id \in DanglingReferences(request.start)
    /\ all_characters[request.start].father_id \in DanglingReferences(request.start)
    /\ request.start \in Selection

----------------------------------------------------------------------------
(* C20: after any sequence of loads every ID of the record map has an entry *)
(* in the name index, a text that is not empty, and for a record without   *)
(* a name the placeholder that contains the ID; get_name returns a text    *)
(* that is not empty, and raises nothing, for a loaded, an unknown and an  *)
(* empty ID                                                                 *)
HasNoName(id) == all_characters[id].name = << >> /\ all_characters[id].middle_name = << >>

C20_EveryIdHasALabel ==
    /\ DOMAIN all_id_to_name_map = Store
    /\ \A id \in Store :
          /\ all_id_to_name_map[id] # << >>
          /\ HasNoName(id) =>
                /\ ToString(id) \in Range(all_id_to_name_map[id])
                /\ all_id_to_name_map[id] # <<ToString(id)>>
    /\ \A char_id \in 0..(NumPersons + 1) : GetName(char_id) # << >>
    /\ name_result.called => name_result.text # << >>
    /\ error = "none"

\* the store holds a record without a name and a record with both names,
\* and the label of the nameless one was just read
C20_Witness ==
    /\ name_result.called
    /\ name_result.char_id \in Store
    /\ HasNoName(name_result.char_id)
    /\ name_result.text = all_id_to_name_map[name_result.char_id]
    /\ ToString(name_result.char_id) \in Range(name_result.text)
    /\ \E id \in Store : Len(all_id_to_name_map[id]) = 3 /\ ~HasNoName(id)
    /\ Store # 1..NumPersons

----------------------------------------------------------------------------
(* C21: generation assignment terminates for every Selection over every    *)
(* store, parent cycles of any length and self-parenting included, and     *)
(* then every person of the Selection has a generation in the map          *)
GenerationsAssigned ==
    /\ graph = "embedded_drawn"
    /\ DOMAIN raw_generations.gen = Selection
    /\ Range(raw_generations.keys) = Selection
    /\ DOMAIN generations = Selection

C21_GenerationAssignmentTerminates == (graph = "embedded") ~> GenerationsAssigned

\* the same without the progress part: a drawn graph has a generation for
\* every person of the Selection (also for rings longer than MaxDepth)
C21_EveryPersonHasGeneration == EmbeddedDrawn => GenerationsAssigned

\* the fathers of the whole store form one ring of more than three persons,
\* and all of them have a generation
C21_Witness ==
    /\ GenerationsAssigned
    /\ Cardinality(Store) > NumPersons
    /\ \A p \in Store : p \in AncestorsWithin({p}, Cardinality(Store))

----------------------------------------------------------------------------
(* C22: in the complete-tree walk each person is added to the processed    *)
(* set at most once and is expanded (children and parents recursed into)   *)
(* at most once over all root-ancestor walks, also when parent references  *)
(* form a cycle, so the walk makes at most one expansion per record        *)
C22_ProcessedAndExpandedOnce ==
    (D3CompleteDone /\ Store # {}) =>
        /\ NoDuplicates(CompleteTreeWalk.adds)
        /\ NoDuplicates(CompleteTreeWalk.expanded)
        /\ Range(CompleteTreeWalk.adds) = CompleteTreeWalk.processed
        /\ Range(CompleteTreeWalk.expanded) \subseteq CompleteTreeWalk.processed
        /\ Len(CompleteTreeWalk.expanded) <= Cardinality(Store)

\* a walk that expanded two persons who are each other's ancestors: the
\* second expansion met the first person again, as child and as parent
C22_Witness ==
    /\ D3CompleteDone
    /\ Len(CompleteTreeWalk.expanded) >= 2
    /\ \E p, q \in Range(CompleteTreeWalk.expanded) :
          /\ p # q
          /\ q \in ParentsOf(p)
          /\ p \in ParentsOf(q)

\* C23: in the diamond layout a spouse reference in one direction is enough:
\* whenever a selected person A names a selected person B as spouse, whatever
\* B's own spouse_id is, one union node keyed by the sorted pair of A and B is
\* created, and the person nodes of A and of B are each connected to it
UnionOf(a, b) == Node("union", SortedPair(a, b)[1], SortedPair(a, b)[2])
C23_OneDirectionalSpouseMakesUnion ==
    FamilyDrawn =>
        \A a \in Selection :
            LET b == all_characters[a].spouse_id
            IN (b # NoId /\ b \in Selection) =>
                  /\ Cardinality({i \in DOMAIN nodes : nodes[i] = UnionOf(a, b)}) = 1
                  /\ Edge(PersonNode(a), UnionOf(a, b), "spouse") \in Range(edges)
                  /\ Edge(PersonNode(b), UnionOf(a, b), "spouse") \in Range(edges)

\* a drawn Selection in which A names B, B names a third selected person or
\* nobody, and the union of A and B is there
C23_Witness ==
    /\ FamilyDrawn
    /\ \E a, b \in Selection :
          /\ a # b
          /\ all_characters[a].spouse_id = b
          /\ all_characters[b].spouse_id # a
          /\ UnionOf(a, b) \in Range(nodes)
    /\ \E a, b \in Selection :
          /\ a # b
          /\ all_characters[a].spouse_id = b
          /\ all_characters[b].spouse_id = NoId

\* the parent whose edge the embedded layout draws for a child: the selected
\* father, or the selected mother when no father is selected; NoId if neither
EdgeParentOf(child) ==
    LET father_id == all_characters[child].father_id
        mother_id == all_characters[child].mother_id
    IN IF father_id # NoId /\ father_id \in Selection THEN father_id
       ELSE IF mother_id # NoId /\ mother_id \in Selection THEN mother_id
       ELSE NoId

\* the visible node that represents a person in the drawn layout
VisibleNodeOf(p) == GetNodeIdForPerson(p, skip_nodes)

ParentChildEdge(parent, child) ==
    [from |-> VisibleNodeOf(parent), to |-> VisibleNodeOf(child), kind |-> "parent-child"]

\* C24: in the embedded layout every selected child with a selected father
\* (or, with no selected father, a selected mother) has an edge from the
\* visible node that represents the parent to the visible node that represents
\* the child, a person of skip_nodes being represented by the node that
\* _get_node_id_for_person returns (stated for a parent and a child that are
\* represented by two different visible nodes)
C24_EveryParentChildEdgeDrawn ==
    EmbeddedDrawn =>
        \A child \in Selection :
            (/\ EdgeParentOf(child) # NoId
             /\ VisibleNodeOf(EdgeParentOf(child)) # NoId
             /\ VisibleNodeOf(child) # NoId
             /\ VisibleNodeOf(child) # VisibleNodeOf(EdgeParentOf(child)))
                => ParentChildEdge(EdgeParentOf(child), child) \in Range(edges)

\* the same for the children that are not in skip_nodes
C24_VisibleChildHasParentEdge ==
    EmbeddedDrawn =>
        \A child \in Selection \ skip_nodes :
            (/\ EdgeParentOf(child) # NoId
             /\ VisibleNodeOf(EdgeParentOf(child)) # NoId)
                => ParentChildEdge(EdgeParentOf(child), child) \in Range(edges)

\* a drawn child that is in skip_nodes, has a visible representative and a
\* selected parent with a visible representative, a third person
C24_SkippedChildWithParent ==
    /\ EmbeddedDrawn
    /\ \E child \in Selection \cap skip_nodes :
          /\ EdgeParentOf(child) # NoId
          /\ VisibleNodeOf(child) \notin {NoId, EdgeParentOf(child)}
          /\ VisibleNodeOf(EdgeParentOf(child)) = EdgeParentOf(child)
          /\ EdgeParentOf(child) # child
          /\ edges = << >>

\* C25: in the name-based bounded resolver, when the start name resolves to a
\* root whose spouse_id resolves to a record, that spouse is in the Selection,
\* for every pair of generation counts
C25_RootSpouseSelectedByName ==
    FamilyResolved =>
        LET spouse_id == all_characters[FamilyRoot].spouse_id
        IN (spouse_id # NoId /\ spouse_id \in Store) => spouse_id \in Selection

\* the root itself is always selected by the name-based resolver
C25_RootSelectedByName == FamilyResolved => FamilyRoot \in Selection

ImprovedDone == graph = "improved"
ImprovedMatches(query) == {id \in Store : Lower(all_id_to_name_map[id]) = Lower(query)}

\* C26: in ImprovedFamilyTreeGraph a start name that matches no record gives
\* an empty Selection, not the whole store, and no error
C26_UnmatchedNameIsEmpty ==
    (ImprovedDone /\ request.start # << >> /\ ImprovedMatches(request.start) = {} /\ Store # {})
        => (characters = << >> /\ error = "none")

\* no error is raised for an unmatched name
C26_UnmatchedNameNoError ==
    (ImprovedDone /\ request.start # << >> /\ ImprovedMatches(request.start) = {})
        => error = "none"

\* a matched name selects the matched record and only records of the store
C26_MatchedNameSelectsRoot ==
    (ImprovedDone /\ request.start # << >> /\ ImprovedMatches(request.start) # {})
        => /\ Selection \cap ImprovedMatches(request.start) # {}
           /\ Selection \subseteq Store
           /\ NoDuplicates(characters)
           /\ (request.gb = 0 /\ request.gf = 0) => Cardinality(Selection) = 1

\* a load_from_xml call without force_reload for the directory that is the
\* current data source: the directory of the last successful load, with no
\* clear_cache since
CachedLoadStep ==
    /\ world'.call.op = "load_from_xml"
    /\ world'.now = world.now + 1
    /\ ~world'.call.force_reload
    /\ service._current_data_source = world'.call.dir

\* C27: after a successful load_from_xml(d), a later load_from_xml(d) with
\* force_reload = false and no clear_cache in between returns True, does not
\* read the source again and leaves the cached characters, the ID-to-name
\* map, the current data source and the last-loaded time as they were,
\* whatever the number of records loaded, zero included
C27_CachedLoadReadsNothing ==
    [][CachedLoadStep =>
          /\ world'.returned = "True"
          /\ world'.reads = world.reads
          /\ service' = service]_vars

\* the same when the cached characters are not empty
C27_NonEmptyCacheReadsNothing ==
    [][(CachedLoadStep /\ service._cached_characters.keys # {}) =>
          /\ world'.returned = "True"
          /\ world'.reads = world.reads
          /\ service' = service]_vars

\* a load with force_reload = true, or of another directory than the current
\* data source, reads the source again when it returns True
C27_ForcedOrOtherDirectoryReads ==
    [][(/\ world'.call.op = "load_from_xml"
        /\ world'.now = world.now + 1
        /\ world'.returned = "True"
        /\ (world'.call.force_reload \/ service._current_data_source # world'.call.dir)) =>
          /\ world'.reads = world.reads + 1
          /\ service'._current_data_source = world'.call.dir
          /\ service'._last_loaded = world'.now
          /\ service'._cached_characters = SomeDict(world.disk[world'.call.dir].ids)]_vars

\* the raw generations of a run that meets the Selection in the given order
RawGenerationsInOrder(order) == CalculateGenerationsInOrder(order, EmptyMap, 1).gen

\* C28: the raw generation map is a function of the Selection and the store
\* only: a run that processes the persons of the same Selection in another
\* iteration order gives every person the same generation, for acyclic and
\* for cyclic input
C28_GenerationsIndependentOfOrder ==
    EmbeddedDrawn =>
        \A order \in Orders(Selection) : RawGenerationsInOrder(order) = raw_generations.gen

\* the same restricted to stores without a cycle of parents
C28_AcyclicIndependentOfOrder ==
    (EmbeddedDrawn /\ Acyclic) =>
        \A order \in Orders(Selection) : RawGenerationsInOrder(order) = raw_generations.gen

\* the run in the Selection's own order is the run that was drawn
C28_SameOrderSameGenerations ==
    EmbeddedDrawn => RawGenerationsInOrder(characters) = raw_generations.gen

\* the nodes the drawing created, by their names
CreatedNodes == Range(nodes)

\* the children of a union id: the selected persons whose sorted (father,
\* mother) pair of selected parents is that id
ChildrenOfUnion(union_id) ==
    {p \in Selection :
        /\ FatherSelected(p) /\ MotherSelected(p)
        /\ UnionOf(all_characters[p].father_id, all_characters[p].mother_id) = union_id}

\* C29: in the diamond layout every edge refers to nodes that were created:
\* whenever a children-group node is connected to the union id of a child's
\* sorted (father, mother) pair, a union node with that id was created in the
\* spouse pass, also when the two parents do not name each other as spouse
\* (stated for parents who are two different persons, neither of them their
\* own child)
C29_EveryEdgeBetweenCreatedNodes ==
    FamilyDrawn =>
        \A i \in DOMAIN edges :
            (edges[i].kind = "union-children"
               => (/\ edges[i].from.a # edges[i].from.b
                   /\ ChildrenOfUnion(edges[i].from) \cap {edges[i].from.a, edges[i].from.b} = {}))
            => /\ edges[i].from \in CreatedNodes
               /\ edges[i].to \in CreatedNodes

\* every edge other than the one from a union id to its children node joins
\* created nodes, and every children node hangs below the id of its pair
C29_OtherEdgesBetweenCreatedNodes ==
    FamilyDrawn =>
        \A i \in DOMAIN edges :
            /\ edges[i].to \in CreatedNodes
            /\ edges[i].kind # "union-children" => edges[i].from \in CreatedNodes
            /\ edges[i].kind = "union-children" =>
                  /\ edges[i].to = Node("children", edges[i].from.a, edges[i].from.b)
                  /\ ChildrenOfUnion(edges[i].from) # {}

\* C30: complete-tree resolution never raises: for every store, the empty
\* store included, it completes and returns a Selection, which is empty when
\* the store is empty
C30_CompleteTreeNeverRaises ==
    D3CompleteDone =>
        /\ error = "none"
        /\ Store = {} => characters = << >>

\* for a store with at least one record the resolution completes without an
\* exception
C30_NonEmptyStoreNeverRaises ==
    (D3CompleteDone /\ Store # {}) => error = "none"

====
